---- MODULE Spec2Model ----
(***************************************************************************)
(* Model of the peer-synchronization orchestrator, SyncingHelper, of      *)
(* client/network/src/sync_helper.rs: the Peer Table and slot accounting, *)
(* the pending request set, the outcome queue and the Reactor Loop.       *)
(*                                                                         *)
(* The chain-sync collaborator (Box<dyn ChainSync<B>>) is an injected      *)
(* dependency: the model keeps the set of peers it tracks (cs_peers) and   *)
(* draws every other answer it gives from the set of answers its contract  *)
(* allows.  disconnect_peer and report_peer have empty bodies in the       *)
(* source, so the model records the calls made by the last handler in the  *)
(* history variable `last` and changes nothing else for them.              *)
(***************************************************************************)
EXTENDS Integers, Sequences, FiniteSets, TLC

\* ------------------------------------------------------------------ bounds
NumPeers == 3
MaxFull == 1
MaxLight == 2
MaxRequests == 1
MaxDispatch == 1
MaxTickSlots == 3
MaxResults == 1
MaxEventPeers == 1
\* the buffer of the command channel, mpsc::channel(64), scaled down
ChannelBuffer == 1
\* calls of SyncingHandle methods that can be in progress at once
MaxCalls == 3
\* the scheduler pallet: blocks produced, tasks scheduled, the largest
\* T::BlockNumber (scaled down), the longest finite After delay, and the
\* configuration values T::MaximumWeight and T::MaxScheduledPerBlock
MaxBlock == 2
MaxTasks == 2
BlockNumberMax == 4
MaxDelay == 1
MaximumWeight == 1
MaxScheduledPerBlock == 2
\* chain events the transaction pool is told of
MaxEvents == 3
\* tasks callers move to another block
MaxMoves == 1

\* --------------------------------------------------------------- constants
\* crate::protocol::LIGHT_MAXIMAL_BLOCKS_DIFFERENCE
LIGHT_MAXIMAL_BLOCKS_DIFFERENCE == 8192

PeerIds == 1..NumPeers
RoleSet == {"full", "light"}

\* List of nodes that should never occupy peer slots (SyncingHelper::new)
default_peers_set_no_slot_peers == {}

VARIABLES
    roles,                          \* local role
    default_peers_set_num_full,
    default_peers_set_num_light,
    debug_assertions,               \* build with debug_assert! compiled in
    best_numbers,                   \* best numbers the handshakes and the local chain present
    peers,                          \* Peer Table: peer id -> role
    default_peers_set_no_slot_connected_peers,
    cs_peers,                       \* peers tracked by the chain-sync collaborator
    announce_validations,           \* validations pushed to the collaborator, not polled
    announce_budget,                \* validations a run pushes at most
    block_announce_data_cache,      \* peers whose announcement has its data cached
    pending_responses,              \* slot -> [who, kind, fields, response]
    next_slot,                      \* id of the next reply slot to allocate
    slot_budget,                    \* reply slots a run allocates at most
    request_peers,                  \* peers the collaborator asks requests for
    completions,                    \* slot -> number of handle_pending_response calls
    pending_messages,               \* outcome queue
    panicked,                       \* the Reactor Loop task has panicked
    rx_queue,                       \* command queue: the calls whose command is enqueued
    rx_closed,                      \* every SyncingHandle (sender) has been dropped
    parked_queue,                   \* calls whose sender is parked, oldest first
    calls,                          \* call id -> [method, pc, executed]
    delay,                          \* the Delay of the current loop iteration
    iteration,                      \* parity of the loop iterations taken
    block_number,                   \* frame_system::Pallet::block_number()
    Agenda,                         \* block number -> slots, a task id or 0 (None)
    IncompleteSince,                \* earliest agenda not fully serviced, 0 (None)
    preimages,                      \* tasks whose call T::Preimages can produce
    scheduled,                      \* task id -> what do_schedule was given
    log,                            \* the dispatches, in order: [task, block]
    Lookup,                         \* task name -> <<when, index>>
    maybe_periodic,                 \* task id -> <<period, count>> left, << >> (None)
    events,                         \* the events the pallet deposited, in order
    outcome,                        \* the last call of the pallet and its result
    schedule_inputs,                \* the arguments callers schedule tasks with
    task_budget,                    \* the tasks a run schedules at most
    last_block,                     \* the last block a run produces
    best_block,                     \* EnactmentHelper::best_block, "" for None
    finalized_block,                \* EnactmentHelper::finalized_block, "" for None
    trace,                          \* the chain events handled and their results
    produced,                       \* history: every event appended to the outcome queue
    drained,                        \* history: the replies to GetEvents, concatenated
    last                            \* what the last handler did

vars == <<roles, default_peers_set_num_full, default_peers_set_num_light,
          debug_assertions, best_numbers, announce_budget, peers, default_peers_set_no_slot_connected_peers,
          cs_peers, announce_validations, block_announce_data_cache,
          pending_responses, next_slot, slot_budget, request_peers,
          completions,
          pending_messages, panicked, rx_queue, rx_closed, parked_queue, calls,
          delay, iteration, block_number, Agenda, IncompleteSince, preimages,
          scheduled, log, Lookup, maybe_periodic, events, outcome,
          schedule_inputs, task_budget, last_block, best_block, finalized_block, trace, produced, drained,
          last>>

facade == <<rx_queue, rx_closed, parked_queue, calls>>
reactor == <<delay, iteration>>
announces == <<announce_validations, block_announce_data_cache>>
pool == <<best_block, finalized_block, trace>>
pallet == <<block_number, Agenda, IncompleteSince, preimages, scheduled, log,
            Lookup, maybe_periodic, events, outcome>>

history == <<produced, drained>>

config == <<roles, default_peers_set_num_full, default_peers_set_num_light,
            debug_assertions, best_numbers, announce_budget, slot_budget, request_peers,
            schedule_inputs,
            task_budget, last_block>>

\* ------------------------------------------------------------------ helpers
is_full(r) == r = "full"
is_light(r) == ~is_full(r)

\* usize subtraction of a release build (wrapping)
usize_sub(a, b) == IF a >= b THEN a - b ELSE a - b + 2^62

Card(S) == Cardinality(S)

\* `last` describes the handler that ran last: its operation and inputs, the
\* calls it made to disconnect_peer (disc), report_peer (rep) and the
\* collaborator (cb), the events it returned or appended (out), the pending
\* records it created (npend) and whether it panicked.  For a handshake that
\* reaches the slot checks, self_best and best_number are the best numbers of
\* the local chain and of the handshake.
Last(op, who, slot, input, known, hs_roles, genesis_ok, blocks_difference, accepted, disc, rep, cb, out, npend, panic) ==
    [op |-> op, who |-> who, slot |-> slot, input |-> input, known |-> known,
     hs_roles |-> hs_roles, genesis_ok |-> genesis_ok,
     blocks_difference |-> blocks_difference, accepted |-> accepted,
     disc |-> disc, rep |-> rep, cb |-> cb, out |-> out, npend |-> npend,
     panic |-> panic, self_best |-> 0, best_number |-> 0]

NoLast == Last("init", 0, 0, "", FALSE, "", TRUE, 0, FALSE, {}, {}, {}, <<>>, 0, FALSE)

\* best numbers a handshake or the local chain can present: equal, and
\* further apart than LIGHT_MAXIMAL_BLOCKS_DIFFERENCE.  Only a light local
\* node reads them (on_sync_peer_connected, `if self.roles.is_light()`).
BestNumbers ==
    IF is_light(roles) THEN {0, LIGHT_MAXIMAL_BLOCKS_DIFFERENCE + 1} ELSE {0}

\* the Command Facade and the Reactor Loop after SyncingHelper::new: an empty
\* channel, no call made yet
CallIds == 1..MaxCalls
NoCall == [method |-> "", pc |-> "idle", executed |-> FALSE]

InitFacade ==
    /\ rx_queue = << >>
    /\ rx_closed = FALSE
    /\ parked_queue = << >>
    /\ calls = [c \in CallIds |-> NoCall]
    /\ delay = "armed"
    /\ iteration = 0

\* EnactmentHelper::new
InitPool ==
    /\ best_block = ""
    /\ finalized_block = ""
    /\ trace = << >>

\* DispatchTime::At(n) and DispatchTime::After(n)
At(n) == [kind |-> "At", n |-> n]
After(n) == [kind |-> "After", n |-> n]

\* no call of the pallet has been made
NoOutcome ==
    [call |-> "", res |-> "", origin |-> "", when |-> 0, index |-> 0, id |-> 0,
     time |-> At(0), task |-> 0]

\* the storage of the scheduler pallet at genesis
InitPallet ==
    /\ block_number = 0
    /\ Agenda = << >>
    /\ IncompleteSince = 0
    /\ preimages = {}
    /\ scheduled = << >>
    /\ log = << >>
    /\ Lookup = << >>
    /\ maybe_periodic = << >>
    /\ events = << >>
    /\ outcome = NoOutcome

\* the handshake as the Status message or the BlockAnnouncesHandshake carries it
StatusSet == [roles : RoleSet, genesis_ok : BOOLEAN, best_number : best_numbers]
NoStatus == [roles |-> "full", genesis_ok |-> TRUE, best_number |-> 0]

\* received_handshake: the bytes a peer sent.  enc says what they encode: a
\* Status message, a bare BlockAnnouncesHandshake (the fallback decoding; drawn
\* with the local genesis hash only), another message, or neither.
HandshakeBytes ==
    [enc : {"Status"}, status : StatusSet]
    \cup [enc : {"Handshake"}, status : {s \in StatusSet : s.genesis_ok /\ s.best_number = 0}]
    \cup [enc : {"Other", "Garbage"}, status : {NoStatus}]

\* <Message<B> as DecodeAll>::decode_all
decode_message(bytes) ==
    CASE bytes.enc = "Status" -> [ok |-> TRUE, is_status |-> TRUE, status |-> bytes.status]
      [] bytes.enc = "Other" -> [ok |-> TRUE, is_status |-> FALSE, status |-> NoStatus]
      [] OTHER -> [ok |-> FALSE, is_status |-> FALSE, status |-> NoStatus]

\* <BlockAnnouncesHandshake<B> as DecodeAll>::decode_all
decode_handshake(bytes) ==
    IF bytes.enc = "Handshake"
    THEN [ok |-> TRUE, status |-> bytes.status]
    ELSE [ok |-> FALSE, status |-> NoStatus]

Init ==
    /\ roles \in RoleSet
    /\ default_peers_set_num_full \in 0..MaxFull
    /\ default_peers_set_num_light = MaxLight
    /\ debug_assertions \in BOOLEAN
    /\ peers = << >>
    /\ default_peers_set_no_slot_connected_peers = {}
    /\ cs_peers = {}
    /\ pending_responses = << >>
    /\ next_slot = 1
    /\ slot_budget = MaxRequests
    /\ request_peers = PeerIds
    /\ completions = [s \in 1..slot_budget |-> 0]
    /\ pending_messages = << >>
    /\ panicked = FALSE
    /\ InitFacade
    /\ InitPallet
    /\ schedule_inputs = {}
    /\ task_budget = 0
    /\ last_block = 0
    /\ best_numbers = BestNumbers
    /\ announce_validations = 0
    /\ announce_budget = 1
    /\ block_announce_data_cache = {}
    /\ InitPool
    /\ produced = << >>
    /\ drained = << >>
    /\ last = NoLast

\* ------------------------------------------------------------ admission
\* mutant: a rejection never carries a reputation change
Rejected_Unpenalized(disc, rep, cb) ==
    [ok |-> FALSE, panic |-> FALSE, peers |-> peers,
     nsc |-> default_peers_set_no_slot_connected_peers, cs |-> cs_peers,
     disc |-> disc, rep |-> {}, cb |-> cb, req |-> FALSE, diff |-> 0]

\* result of on_sync_peer_connected that leaves every collection unchanged
Rejected(disc, rep, cb) ==
    [ok |-> FALSE, panic |-> FALSE, peers |-> peers,
     nsc |-> default_peers_set_no_slot_connected_peers, cs |-> cs_peers,
     disc |-> disc, rep |-> rep, cb |-> cb, req |-> FALSE, diff |-> 0]

\* mutant: the check for an already connected peer is missing
AlreadyConnected_Missing(who) == FALSE

\* on_sync_peer_connected: the peer is in the Peer Table already
AlreadyConnected(who) == who \in DOMAIN peers

\* mutant: the genesis hash is not compared
GenesisMismatch_Missing(status) == FALSE

\* on_sync_peer_connected: the peer is on a different chain
GenesisMismatch(status) == ~status.genesis_ok

\* mutant: the full-slot check compares with > instead of >=
TooManyFull_OffByOne(status, reserved) ==
    /\ is_full(status.roles)
    /\ Card(cs_peers) > default_peers_set_num_full
                         + Card(default_peers_set_no_slot_connected_peers)
                         + reserved

\* the full-slot check of on_sync_peer_connected
TooManyFull(status, reserved) ==
    /\ is_full(status.roles)
    /\ Card(cs_peers) >= default_peers_set_num_full
                          + Card(default_peers_set_no_slot_connected_peers)
                          + reserved

\* mutant: the light-slot check compares with > instead of >=
TooManyLight_OffByOne(status) ==
    /\ is_light(status.roles)
    /\ usize_sub(Card(DOMAIN peers), Card(cs_peers)) > default_peers_set_num_light

\* the light-slot check of on_sync_peer_connected
TooManyLight(status) ==
    /\ is_light(status.roles)
    /\ usize_sub(Card(DOMAIN peers), Card(cs_peers)) >= default_peers_set_num_light

\* ChainSync::new_peer: np is the collaborator's answer.  A peer it accepts
\* is tracked by it from then on.
new_peer(who, np) == IF np = "BadPeer" THEN cs_peers ELSE cs_peers \cup {who}

\* ChainSync::peer_disconnected
peer_disconnected(who) == cs_peers \ {who}

\* mutant: the answer of new_peer is not looked at
Refused_Ignored(status, np) == FALSE

\* on_sync_peer_connected: new_peer is called for a full-role peer and
\* returns Err(BadPeer(id, repu))
Refused(status, np) == is_full(status.roles) /\ np = "BadPeer"

\* mutant: the distance between the two best numbers, whichever is ahead
checked_sub_Distance(a, b) == IF a >= b THEN a - b ELSE b - a

\* on_sync_peer_connected:
\* `self_best_block.checked_sub(&status.best_number).unwrap_or_else(Zero::zero)`
checked_sub(a, b) == IF a >= b THEN a - b ELSE 0

\* SyncingHelper::on_sync_peer_connected.  self_best is chain.info().best_number,
\* np the answer of ChainSync::new_peer ("None", "Request" or "BadPeer").
on_sync_peer_connected(who, status, self_best, np) ==
    LET no_slot_peer == who \in default_peers_set_no_slot_peers
        this_peer_reserved_slot == IF no_slot_peer THEN 1 ELSE 0
        blocks_difference == checked_sub(self_best, status.best_number)
        \* blocks_difference is computed only by a light local node
        light_diff == IF is_light(roles) THEN blocks_difference ELSE 0
    IN  IF AlreadyConnected(who)
        THEN [Rejected({}, {}, {}) EXCEPT !.panic = debug_assertions]
        ELSE IF GenesisMismatch(status)
        THEN Rejected({who}, {<<who, "GENESIS_MISMATCH">>}, {})
        ELSE IF is_light(roles) /\ is_light(status.roles)
        THEN Rejected({who}, {<<who, "BAD_ROLE">>}, {})
        ELSE IF is_light(roles) /\ blocks_difference > LIGHT_MAXIMAL_BLOCKS_DIFFERENCE
        THEN [Rejected({who}, {<<who, "PEER_BEHIND_US_LIGHT">>}, {})
                 EXCEPT !.diff = blocks_difference]
        ELSE IF TooManyFull(status, this_peer_reserved_slot)
        THEN [Rejected({who}, {}, {}) EXCEPT !.diff = light_diff]
        ELSE IF TooManyLight(status)
        THEN [Rejected({who}, {}, {}) EXCEPT !.diff = light_diff]
        ELSE IF Refused(status, np)
        THEN [Rejected({who}, {<<who, "BadPeer">>}, {"new_peer"})
                 EXCEPT !.diff = light_diff]
        ELSE [ok |-> TRUE, panic |-> FALSE,
              peers |-> (who :> status.roles) @@ peers,
              nsc |-> IF no_slot_peer
                      THEN default_peers_set_no_slot_connected_peers \cup {who}
                      ELSE default_peers_set_no_slot_connected_peers,
              cs |-> IF is_full(status.roles) THEN new_peer(who, np) ELSE cs_peers,
              disc |-> {}, rep |-> {},
              cb |-> IF is_full(status.roles) THEN {"new_peer"} ELSE {},
              req |-> is_full(status.roles) /\ np = "Request",
              diff |-> light_diff]

\* mutant: the peer is inserted into the no-slot-connected set, not removed
no_slot_connected_without_Inserted(peer) ==
    default_peers_set_no_slot_connected_peers \cup {peer}

\* on_sync_peer_disconnected: the no-slot-connected set once the peer is gone
no_slot_connected_without(peer) == default_peers_set_no_slot_connected_peers \ {peer}

\* mutant: a close for a peer outside the Peer Table is answered like one
\* for a peer in it
on_sync_peer_disconnected_AlwaysOk(peer) ==
    [ok |-> TRUE,
     peers |-> [p \in DOMAIN peers \ {peer} |-> peers[p]],
     cs |-> peer_disconnected(peer),
     nsc |-> no_slot_connected_without(peer),
     cb |-> {"peer_disconnected"}]

\* SyncingHelper::on_sync_peer_disconnected
on_sync_peer_disconnected(peer) ==
    IF peer \in DOMAIN peers
    THEN [ok |-> TRUE,
          peers |-> [p \in DOMAIN peers \ {peer} |-> peers[p]],
          cs |-> peer_disconnected(peer),
          nsc |-> no_slot_connected_without(peer),
          cb |-> {"peer_disconnected"}]
    ELSE [ok |-> FALSE, peers |-> peers, cs |-> cs_peers,
          nsc |-> default_peers_set_no_slot_connected_peers, cb |-> {}]

\* ------------------------------------------------------- pending requests
BlockFields == {"BODY", "JUSTIFICATION"}
Waiting == "Waiting"

\* a new pending record, as prepare_block_request, prepare_state_request and
\* prepare_warp_sync_request push it; slot is the fresh oneshot channel
PendingRecord(who, kind, fields) ==
    [who |-> who, kind |-> kind, fields |-> fields, response |-> Waiting]

\* SyncingHelper::prepare_block_request
prepare_block_request(pend, slot, who, fields) ==
    [pend |-> (slot :> PendingRecord(who, "Block", fields)) @@ pend,
     event |-> [type |-> "BlockRequest", slot |-> slot]]

\* SyncingHelper::prepare_state_request
prepare_state_request(pend, slot, who) ==
    [pend |-> (slot :> PendingRecord(who, "State", "NA")) @@ pend,
     event |-> [type |-> "StateRequest", slot |-> slot]]

\* SyncingHelper::prepare_warp_sync_request
prepare_warp_sync_request(pend, slot, who) ==
    [pend |-> (slot :> PendingRecord(who, "WarpProof", "NA")) @@ pend,
     event |-> [type |-> "WarpSyncRequest", slot |-> slot]]

Ev(type) == [type |-> type, slot |-> 0]

\* ----------------------------------------------------------------- commands
\* SyncingHelper::custom_protocol_open, serviced by handle_command
\* (SyncEvent::CustomProtocolOpen); the reply goes to the command's reply slot
custom_protocol_open(peer_id, received_handshake, self_best, np) ==
    LET m == decode_message(received_handshake)
        h == decode_handshake(received_handshake)
        decoded == (m.ok /\ m.is_status) \/ (~m.ok /\ h.ok)
        status == IF m.ok THEN m.status ELSE h.status
        known == peer_id \in DOMAIN peers
    IN  /\ ~panicked
        /\ IF ~decoded
           THEN /\ UNCHANGED <<peers, default_peers_set_no_slot_connected_peers,
                               cs_peers, pending_responses, next_slot, panicked>>
                /\ last' = Last("open", peer_id, 0,
                                IF m.ok THEN "not_status" ELSE "undecodable",
                                known, "", TRUE, 0, FALSE,
                                {}, {<<peer_id, "BAD_MESSAGE">>}, {},
                                <<Ev("None")>>, 0, FALSE)
           ELSE \E r \in {on_sync_peer_connected(peer_id, status, self_best, np)} :
                /\ r.req => next_slot <= slot_budget
                /\ IF r.panic
                   THEN /\ panicked' = TRUE
                        /\ UNCHANGED <<peers, default_peers_set_no_slot_connected_peers,
                                       cs_peers, pending_responses, next_slot>>
                        /\ last' = Last("open", peer_id, 0, "handshake", known,
                                        "", TRUE, 0, FALSE, {}, {}, {}, <<>>, 0, TRUE)
                   ELSE \E p \in {prepare_block_request(pending_responses, next_slot,
                                                        peer_id, "BODY")} :
                        /\ peers' = r.peers
                        /\ default_peers_set_no_slot_connected_peers' = r.nsc
                        /\ cs_peers' = r.cs
                        /\ pending_responses' = IF r.req THEN p.pend ELSE pending_responses
                        /\ next_slot' = IF r.req THEN next_slot + 1 ELSE next_slot
                        /\ UNCHANGED panicked
                        /\ last' = [Last("open", peer_id,
                                         IF r.req THEN next_slot ELSE 0,
                                         "handshake", known,
                                         IF known THEN "" ELSE status.roles,
                                         IF known THEN TRUE ELSE status.genesis_ok,
                                         r.diff, r.ok, r.disc, r.rep, r.cb,
                                         IF ~r.ok THEN <<Ev("None")>>
                                         ELSE IF r.req
                                         THEN <<p.event, Ev("SyncConnected")>>
                                         ELSE <<Ev("SyncConnected")>>,
                                         IF r.req THEN 1 ELSE 0, FALSE)
                                       EXCEPT !.self_best = self_best,
                                              !.best_number =
                                                 IF /\ ~known
                                                    /\ status.genesis_ok
                                                    /\ ~(/\ is_light(roles)
                                                         /\ is_light(status.roles))
                                                 THEN status.best_number ELSE 0]
        /\ UNCHANGED <<config, completions, pending_messages, history>>

\* SyncingHelper::custom_protocol_close (SyncEvent::CustomProtocolClosed)
custom_protocol_close(peer) ==
    \E r \in {on_sync_peer_disconnected(peer)} :
        /\ ~panicked
        /\ peers' = r.peers
        /\ cs_peers' = r.cs
        /\ default_peers_set_no_slot_connected_peers' = r.nsc
        /\ last' = Last("close", peer, 0, "", peer \in DOMAIN peers, "", TRUE, 0,
                        r.ok, {}, {}, r.cb,
                        IF r.ok THEN <<Ev("SyncDisconnected")>> ELSE <<Ev("None")>>,
                        0, FALSE)
        /\ UNCHANGED <<config, pending_responses, next_slot, completions,
                       pending_messages, panicked, history>>

\* ------------------------------------------------------------ notification
\* the payload of a notification: one that BlockAnnounce::decode accepts and
\* one that it does not
Notifications == {"announce", "garbage"}

\* SyncingHelper::push_block_announce_validation for a peer of the Peer
\* Table: the collaborator is told only for a full peer
push_block_announce_validation(who) ==
    IF is_full(peers[who]) THEN {"push_block_announce_validation"} ELSE {}

\* a finished validation as ChainSync::poll_block_announce_validation hands
\* it over, with the answer of ChainSync::on_block_data to its header
ValidationResults ==
    [who : PeerIds, result : {"Skip", "Nothing", "ImportHeader", "Failure"},
     answer : {"Import", "Continue", "BadPeer"}]

\* SyncingHelper::process_block_announce_validation_result: Nothing and
\* ImportHeader cache the data of the announcement, ImportHeader goes on to
\* on_block_data and answers with its block import
process_block_announce_validation_result(validation_result) ==
    [cached |-> IF validation_result.result \in {"Nothing", "ImportHeader"}
                THEN {validation_result.who} ELSE {},
     cb |-> {"process_block_announce_validation_result"}
            \cup (IF validation_result.result = "ImportHeader"
                  THEN {"on_block_data"} ELSE {}),
     out |-> IF /\ validation_result.result = "ImportHeader"
                /\ validation_result.answer = "Import"
             THEN <<Ev("BlockImport")>> ELSE <<Ev("None")>>]

poll_block_announce_validation_Ready(validations) ==
    IF validations = 0 THEN {}
    ELSE {r \in ValidationResults : r.result = "ImportHeader"}

\* the finished validations that notification and run take out of the
\* collaborator: `self.chain_sync.poll_block_announce_validation(cx)` is
\* commented out in both, so whatever the collaborator holds, none
poll_block_announce_validation(validations) == {}

\* SyncingHelper::notification (SyncEvent::Notification): the answer is
\* CustomMessageOutcome::None on every path
notification(peer, message) ==
    /\ ~panicked
    /\ IF peer \in DOMAIN peers /\ message = "announce"
       THEN LET cb == push_block_announce_validation(peer)
                pushed == announce_validations + Cardinality(cb)
                ready == poll_block_announce_validation(pushed)
            IN  /\ pushed <= announce_budget
                /\ IF ready = {}
                   THEN /\ last' = Last("notify", peer, 0, "announce", TRUE, "", TRUE, 0,
                                        FALSE, {}, {}, cb, <<Ev("None")>>, 0, FALSE)
                        /\ announce_validations' = pushed
                        /\ UNCHANGED block_announce_data_cache
                   ELSE \E res \in ready :
                           LET done == process_block_announce_validation_result(res)
                           IN  /\ last' = Last("notify", peer, 0, "announce", TRUE, "", TRUE,
                                               0, FALSE, {}, {}, cb \cup done.cb, done.out,
                                               0, FALSE)
                               /\ announce_validations' = pushed - 1
                               /\ block_announce_data_cache' =
                                       block_announce_data_cache \cup done.cached
       ELSE /\ last' = IF peer \in DOMAIN peers
                       THEN Last("notify", peer, 0, "undecodable", TRUE, "", TRUE, 0,
                                 FALSE, {}, {}, {}, <<Ev("None")>>, 0, FALSE)
                       ELSE Last("notify", peer, 0, "", FALSE, "", TRUE, 0, FALSE,
                                 {}, {}, {}, <<Ev("None")>>, 0, FALSE)
            /\ UNCHANGED announces
    /\ UNCHANGED <<config, peers, default_peers_set_no_slot_connected_peers,
                   cs_peers, pending_responses, next_slot, completions,
                   pending_messages, panicked, history>>

Notification ==
    \E peer \in PeerIds : \E message \in Notifications :
        /\ notification(peer, message)
        /\ UNCHANGED <<facade, reactor, pallet, pool>>

\* on_sync_peer_connected reaches its slot checks with this handshake
ReachesSlotChecks(peer_id, bytes) ==
    /\ bytes.enc \in {"Status", "Handshake"}
    /\ ~AlreadyConnected(peer_id)
    /\ ~GenesisMismatch(bytes.status)
    /\ ~(is_light(roles) /\ is_light(bytes.status.roles))

\* chain.info().best_number at a handshake that reaches the slot checks; a
\* light local node reads it
ChainInfoBest(peer_id, bytes) ==
    IF ReachesSlotChecks(peer_id, bytes) THEN best_numbers ELSE {0}

\* answers of ChainSync::new_peer, which is called for a full-role peer that
\* passed every check of on_sync_peer_connected
NewPeerAnswers(peer_id, bytes, self_best) ==
    IF /\ ReachesSlotChecks(peer_id, bytes)
       /\ is_full(bytes.status.roles)
       /\ ~(is_light(roles) /\ self_best - bytes.status.best_number > LIGHT_MAXIMAL_BLOCKS_DIFFERENCE)
       /\ ~TooManyFull(bytes.status, IF peer_id \in default_peers_set_no_slot_peers THEN 1 ELSE 0)
    THEN {"None", "Request", "BadPeer"} ELSE {"None"}

CustomProtocolOpen ==
    \E peer_id \in PeerIds, bytes \in HandshakeBytes :
        \E self_best \in ChainInfoBest(peer_id, bytes) :
            \E np \in NewPeerAnswers(peer_id, bytes, self_best) :
                /\ custom_protocol_open(peer_id, bytes, self_best, np)
                /\ UNCHANGED <<facade, reactor, announces, pallet, pool>>

CustomProtocolClosed ==
    \E peer \in PeerIds :
        /\ custom_protocol_close(peer)
        /\ UNCHANGED <<facade, reactor, announces, pallet, pool>>

\* ------------------------------------------------------ the reply slots
\* what the loop finds in a reply slot once the network layer has resolved it:
\* Ok(Ok(bytes)), Ok(Err(failure)), or Err(oneshot::Canceled) when the sender
\* half was dropped
ResponseClasses == {"Value", "Failure", "Canceled"}

\* sc_network_common::request_responses::RequestFailure, with the
\* libp2p OutboundFailure of RequestFailure::Network
RequestFailures == {"Timeout", "UnsupportedProtocols", "DialFailure", "Refused",
                    "ConnectionClosed", "NotConnected", "UnknownProtocol", "Obsolete"}

\* what the collaborator makes of a payload, by request kind: the decoding
\* stages, then the answer of the data callback
Payloads(rec) ==
    CASE rec.kind = "Block" /\ rec.fields = "JUSTIFICATION" ->
            {"DecodeErr", "IntoBlocksErr", "Nothing", "Import", "BadPeer"}
      [] rec.kind = "Block" ->
            {"DecodeErr", "IntoBlocksErr", "Import", "Request", "Continue", "BadPeer"}
      [] rec.kind = "State" -> {"DecodeErr", "Import", "Continue", "BadPeer"}
      [] OTHER -> {"Ok", "BadPeer"}

\* the values a resolved reply slot of record rec can hold
Details(rec, class) ==
    CASE class = "Value" -> Payloads(rec)
      [] class = "Failure" -> RequestFailures
      [] OTHER -> {"Canceled"}

\* mutant: disconnect_peer takes the peer out of the Peer Table
disconnect_peer_Removes(table, ids) == [p \in DOMAIN table \ ids |-> table[p]]

\* SyncingHelper::disconnect_peer, called for every peer of ids: the body is
\* empty (`// TODO: disconnect peer`), the Peer Table is what it was
disconnect_peer(table, ids) == table

\* effect of a handler on the peer and the collaborator
Effect(disc, rep, cb, ev, follow, panic) ==
    [disc |-> disc, rep |-> rep, cb |-> cb, ev |-> ev, follow |-> follow,
     panic |-> panic]

\* SyncingHelper::on_block_response
on_block_response(peer_id, fields, payload) ==
    IF payload = "IntoBlocksErr"
    THEN Effect({}, {<<peer_id, "BAD_MESSAGE">>},
                {"decode_block_response", "block_response_into_blocks"},
                <<"None">>, FALSE, FALSE)
    ELSE IF fields = "JUSTIFICATION"
    THEN LET cb == {"decode_block_response", "block_response_into_blocks",
                    "on_block_justification"}
         IN CASE payload = "Nothing" -> Effect({}, {}, cb, <<"None">>, FALSE, FALSE)
              [] payload = "Import" ->
                    Effect({}, {}, cb, <<"JustificationImport">>, FALSE, FALSE)
              [] OTHER -> Effect({peer_id}, {<<peer_id, "BadPeer">>}, cb,
                                 <<"None">>, FALSE, FALSE)
    ELSE LET cb == {"decode_block_response", "block_response_into_blocks",
                    "on_block_data"}
         IN CASE payload = "Import" -> Effect({}, {}, cb, <<"BlockImport">>, FALSE, FALSE)
              [] payload = "Request" ->
                    Effect({}, {}, cb, <<"BlockRequest">>, TRUE, FALSE)
              [] payload = "Continue" -> Effect({}, {}, cb, <<"None">>, FALSE, FALSE)
              [] OTHER -> Effect({peer_id}, {<<peer_id, "BadPeer">>}, cb,
                                 <<"None">>, FALSE, FALSE)

\* SyncingHelper::on_state_response
on_state_response(peer_id, payload) ==
    LET cb == {"decode_state_response", "on_state_data"}
    IN CASE payload = "Import" -> Effect({}, {}, cb, <<"BlockImport">>, FALSE, FALSE)
         [] payload = "Continue" -> Effect({}, {}, cb, <<"None">>, FALSE, FALSE)
         [] OTHER -> Effect({peer_id}, {<<peer_id, "BadPeer">>}, cb,
                            <<"None">>, FALSE, FALSE)

\* mutant: a warp proof is handed to the state callback
on_warp_sync_response_AsState(peer_id, payload) ==
    IF payload = "Ok"
    THEN Effect({}, {}, {"on_state_data"}, <<"None">>, FALSE, FALSE)
    ELSE Effect({peer_id}, {<<peer_id, "BadPeer">>}, {"on_state_data"},
                <<"None">>, FALSE, FALSE)

\* SyncingHelper::on_warp_sync_response
on_warp_sync_response(peer_id, payload) ==
    IF payload = "Ok"
    THEN Effect({}, {}, {"on_warp_sync_data"}, <<"None">>, FALSE, FALSE)
    ELSE Effect({peer_id}, {<<peer_id, "BadPeer">>}, {"on_warp_sync_data"},
                <<"None">>, FALSE, FALSE)

\* mutant: a timeout disconnects the peer without the reputation change
on_timeout_NoReport(id) == Effect({id}, {}, {}, <<>>, FALSE, FALSE)

\* handle_pending_response, RequestFailure::Network(OutboundFailure::Timeout)
on_timeout(id) == Effect({id}, {<<id, "TIMEOUT">>}, {}, <<>>, FALSE, FALSE)

\* mutant: the assertion is compiled out of every build
on_impossible_failure_Ignored(id) == Effect({}, {}, {}, <<>>, FALSE, FALSE)

\* handle_pending_response, RequestFailure::UnknownProtocol and ::Obsolete:
\* debug_assert!(false, ..) and nothing else
on_impossible_failure(id) == Effect({}, {}, {}, <<>>, FALSE, debug_assertions)

\* mutant: a dropped reply slot is penalized like a refused request
on_canceled_Penalized(id) == Effect({id}, {<<id, "REFUSED">>}, {}, <<>>, FALSE, FALSE)

\* handle_pending_response, Err(oneshot::Canceled)
on_canceled(id) == Effect({id}, {}, {}, <<>>, FALSE, FALSE)

\* the Ok(Err(err)) arm of handle_pending_response
on_request_failure(id, err) ==
    CASE err = "Timeout" -> on_timeout(id)
      [] err = "UnsupportedProtocols" ->
            Effect({id}, {<<id, "BAD_PROTOCOL">>}, {}, <<>>, FALSE, FALSE)
      [] err = "DialFailure" -> Effect({id}, {}, {}, <<>>, FALSE, FALSE)
      [] err = "Refused" -> Effect({id}, {<<id, "REFUSED">>}, {}, <<>>, FALSE, FALSE)
      [] err \in {"ConnectionClosed", "NotConnected"} ->
            Effect({id}, {}, {}, <<>>, FALSE, FALSE)
      [] OTHER -> on_impossible_failure(id)

\* SyncingHelper::handle_pending_response, as far as it depends on the record
\* and on the value of its reply slot
pending_response_effect(rec, class, detail) ==
    CASE class = "Canceled" -> on_canceled(rec.who)
      [] class = "Failure" -> on_request_failure(rec.who, detail)
      [] rec.kind = "Block" /\ detail = "DecodeErr" ->
            Effect({rec.who}, {<<rec.who, "BAD_MESSAGE">>},
                   {"decode_block_response"}, <<>>, FALSE, FALSE)
      [] rec.kind = "Block" -> on_block_response(rec.who, rec.fields, detail)
      [] rec.kind = "State" /\ detail = "DecodeErr" ->
            Effect({rec.who}, {<<rec.who, "BAD_MESSAGE">>},
                   {"decode_state_response"}, <<>>, FALSE, FALSE)
      [] rec.kind = "State" -> on_state_response(rec.who, detail)
      [] OTHER -> on_warp_sync_response(rec.who, detail)

\* mutant: the event of a completion is dropped
push_back_Dropped(queue, ev) == queue

\* self.pending_messages.push_back(ev)
push_back(queue, ev) == Append(queue, ev)

\* mutant: the finished future stays in pending_responses
select_next_some_Kept(s) == pending_responses

\* run: select_next_some() takes the finished future out of pending_responses
select_next_some(s) ==
    [t \in DOMAIN pending_responses \ {s} |-> pending_responses[t]]

\* run: the branch of select! that takes a finished pending response out of
\* pending_responses and passes it to handle_pending_response
handle_pending_response(s, class, detail) ==
    LET rec == pending_responses[s]
        rest == select_next_some(s)
    IN  /\ ~panicked
        /\ rec.response # Waiting
        /\ \E e \in {pending_response_effect(rec, class, detail)} :
           \E p \in {prepare_block_request(rest, next_slot, rec.who, "BODY")} :
            /\ e.follow => next_slot <= slot_budget
            /\ pending_responses' = IF e.follow THEN p.pend ELSE rest
            /\ next_slot' = IF e.follow THEN next_slot + 1 ELSE next_slot
            /\ completions' = [completions EXCEPT ![s] = @ + 1]
            /\ panicked' = e.panic
            /\ pending_messages' =
                  IF e.ev = <<>> THEN pending_messages
                  ELSE IF e.follow THEN push_back(pending_messages, p.event)
                  ELSE push_back(pending_messages, Ev(e.ev[1]))
            /\ produced' =
                  IF e.ev = <<>> THEN produced
                  ELSE IF e.follow THEN Append(produced, p.event)
                  ELSE Append(produced, Ev(e.ev[1]))
            /\ last' = Last("complete", rec.who, s,
                            <<rec.kind, rec.fields, class, detail>>,
                            FALSE, "", TRUE, 0, FALSE, e.disc, e.rep, e.cb,
                            IF e.ev = <<>> THEN <<>>
                            ELSE IF e.follow THEN <<p.event>> ELSE <<Ev(e.ev[1])>>,
                            IF e.follow THEN 1 ELSE 0, e.panic)
            /\ peers' = disconnect_peer(peers, e.disc)
        /\ UNCHANGED <<config, default_peers_set_no_slot_connected_peers,
                       cs_peers, drained>>

PendingResponse ==
    \E s \in DOMAIN pending_responses, class \in ResponseClasses :
        \E detail \in Details(pending_responses[s], class) :
            /\ handle_pending_response(s, class, detail)
            /\ UNCHANGED <<facade, reactor, announces, pallet, pool>>

\* the network layer resolves the reply slot of a pending record, or drops its
\* sender half: the future pushed by prepare_*_request becomes ready
resolve_reply_slot(s) ==
    /\ ~panicked
    /\ pending_responses[s].response = Waiting
    /\ pending_responses' = [pending_responses EXCEPT ![s].response = "Resolved"]
    /\ last' = Last("resolve", pending_responses[s].who, s, "", FALSE, "", TRUE,
                    0, FALSE, {}, {}, {}, <<>>, 0, FALSE)
    /\ UNCHANGED <<config, peers, default_peers_set_no_slot_connected_peers,
                   cs_peers, next_slot, completions, pending_messages, panicked,
                   history>>

ResolveReplySlot ==
    \E s \in DOMAIN pending_responses :
        /\ resolve_reply_slot(s)
        /\ UNCHANGED <<facade, reactor, announces, pallet, pool>>

\* ------------------------------------------------------------ dispatch tick
\* the requests the collaborator reports as due at a tick: block_requests()
\* (one per peer), state_request(), justification_requests(), warp_sync_request()
Due(kind, fields, who) == [kind |-> kind, fields |-> fields, who |-> who]

Rank(d) == CASE d.kind = "Block" /\ d.fields = "BODY" -> 1
             [] d.kind = "State" -> 2
             [] d.kind = "Block" -> 3
             [] OTHER -> 4

DueRequests ==
    {Due("Block", f, w) : f \in BlockFields, w \in request_peers}
    \cup {Due(k, "NA", w) : k \in {"State", "WarpProof"}, w \in request_peers}

\* the batches of a tick, in the order run walks them
IsBatch(b) ==
    \A i \in 1..Len(b), j \in 1..Len(b) :
        i < j => /\ Rank(b[i]) <= Rank(b[j])
                 /\ Rank(b[i]) = Rank(b[j]) =>
                        /\ b[i].kind = "Block"
                        /\ b[i].who < b[j].who

Batches(max) == UNION {{b \in [1..n -> DueRequests] : IsBatch(b)} : n \in 0..max}

EventOf(d) == CASE d.kind = "Block" -> "BlockRequest"
                [] d.kind = "State" -> "StateRequest"
                [] OTHER -> "WarpSyncRequest"

\* the answers of the collaborator's four queries, out of what it reports as due
block_requests(report) ==
    SelectSeq(report, LAMBDA d : d.kind = "Block" /\ d.fields = "BODY")
state_request(report) == SelectSeq(report, LAMBDA d : d.kind = "State")
justification_requests(report) ==
    SelectSeq(report, LAMBDA d : d.kind = "Block" /\ d.fields = "JUSTIFICATION")
warp_sync_request(report) == SelectSeq(report, LAMBDA d : d.kind = "WarpProof")

\* mutant: the state request is prepared before the block requests
TickWalk_StateFirst(report) ==
    state_request(report) \o block_requests(report)
        \o justification_requests(report) \o warp_sync_request(report)

\* run, the Delay branch: the order in which the due requests are prepared
TickWalk(report) ==
    block_requests(report) \o state_request(report)
        \o justification_requests(report) \o warp_sync_request(report)

\* run: the Delay branch of select!
dispatch_tick(report) ==
    LET batch == TickWalk(report)
        n == Len(batch)
        new == [i \in 1..n |-> [type |-> EventOf(batch[i]), slot |-> next_slot + i - 1]]
    IN  /\ ~panicked
        /\ next_slot + n - 1 <= slot_budget
        /\ pending_responses' =
              [s \in DOMAIN pending_responses \cup (next_slot..(next_slot + n - 1)) |->
                  IF s \in DOMAIN pending_responses THEN pending_responses[s]
                  ELSE PendingRecord(batch[s - next_slot + 1].who,
                                     batch[s - next_slot + 1].kind,
                                     batch[s - next_slot + 1].fields)]
        /\ next_slot' = next_slot + n
        /\ pending_messages' = pending_messages \o new
        /\ produced' = produced \o new
        /\ last' = Last("tick", 0, 0, report, FALSE, "", TRUE, 0, FALSE, {}, {}, {},
                        new, n, FALSE)
        /\ UNCHANGED <<config, peers, default_peers_set_no_slot_connected_peers,
                       cs_peers, completions, panicked, drained>>

DispatchTick ==
    \E batch \in Batches(slot_budget - next_slot + 1) :
        /\ dispatch_tick(batch)
        /\ UNCHANGED <<facade, reactor, announces, pallet, pool>>

\* ------------------------------------------------------------------ drain
\* mutant: the drain returns the queue and leaves it as it is
take_Copy(queue) == [taken |-> queue, left |-> queue]

\* std::mem::take(&mut self.pending_messages)
take(queue) == [taken |-> queue, left |-> << >>]

\* handle_command, SyncEvent::GetEvents: the reply is the whole outcome queue
get_events ==
    \E t \in {take(pending_messages)} :
        /\ ~panicked
        /\ pending_messages' = t.left
        /\ drained' = drained \o t.taken
        /\ last' = Last("drain", 0, 0, t.taken, FALSE, "", TRUE, 0, FALSE,
                        {}, {}, {}, <<>>, 0, FALSE)
        /\ UNCHANGED <<config, peers, default_peers_set_no_slot_connected_peers,
                       cs_peers, pending_responses, next_slot, completions,
                       panicked, produced>>

GetEvents == get_events /\ UNCHANGED <<facade, reactor, announces, pallet, pool>>

\* -------------------------------------------------------- blocks processed
\* what ChainSync::on_blocks_processed returns: per entry a follow-up block
\* request for a peer (ok) or a BadPeer
ProcessedResults ==
    UNION {[1..n -> [ok : BOOLEAN, who : request_peers]] : n \in 0..MaxResults}

\* SyncingHelper::on_blocks_processed, serviced by handle_command
\* (SyncEvent::OnBlocksProcessed): the events go to the command's reply slot
on_blocks_processed(results) ==
    LET oks == SelectSeq(results, LAMBDA x : x.ok)
        errs == SelectSeq(results, LAMBDA x : ~x.ok)
        n == Len(oks)
        out == [i \in 1..n |-> [type |-> "BlockRequest", slot |-> next_slot + i - 1]]
    IN  /\ ~panicked
        /\ next_slot + n - 1 <= slot_budget
        /\ pending_responses' =
              [s \in DOMAIN pending_responses \cup (next_slot..(next_slot + n - 1)) |->
                  IF s \in DOMAIN pending_responses THEN pending_responses[s]
                  ELSE PendingRecord(oks[s - next_slot + 1].who, "Block", "BODY")]
        /\ next_slot' = next_slot + n
        /\ last' = Last("blocks_processed", 0, 0, results, FALSE, "", TRUE, 0, FALSE,
                        {errs[i].who : i \in 1..Len(errs)},
                        {<<errs[i].who, "BadPeer">> : i \in 1..Len(errs)},
                        {"on_blocks_processed"}, out, n, FALSE)
        /\ peers' = disconnect_peer(peers, {errs[i].who : i \in 1..Len(errs)})
        /\ UNCHANGED <<config, default_peers_set_no_slot_connected_peers,
                       cs_peers, completions, pending_messages, panicked, history>>

OnBlocksProcessed ==
    \E results \in ProcessedResults :
        /\ on_blocks_processed(results)
        /\ UNCHANGED <<facade, reactor, announces, pallet, pool>>

\* ------------------------------------------------ justification import
\* SyncingHelper::justification_import_result, serviced by handle_command
\* (SyncEvent::JustificationImportResult): no reply
justification_import_result(who, success) ==
    LET disc == IF success THEN {} ELSE {who}
        rep == IF success THEN {} ELSE {<<who, "Invalid justification">>}
    IN  /\ ~panicked
        /\ last' = Last("justification_import", who, 0,
                        IF success THEN "success" ELSE "failure",
                        who \in DOMAIN peers, "", TRUE, 0, FALSE, disc, rep,
                        {"on_justification_import"}, <<>>, 0, FALSE)
        /\ peers' = disconnect_peer(peers, disc)
        /\ UNCHANGED <<config, default_peers_set_no_slot_connected_peers,
                       cs_peers, pending_responses, next_slot, completions,
                       pending_messages, panicked, history>>

JustificationImportResult ==
    \E who \in PeerIds, success \in BOOLEAN :
        /\ justification_import_result(who, success)
        /\ UNCHANGED <<facade, reactor, announces, pallet, pool>>

\* --------------------------------------------------------- specifications
\* admission: the commands that open and close the sync protocol of a peer
Next ==
    \/ CustomProtocolOpen
    \/ CustomProtocolClosed

Spec == Init /\ [][Next]_vars

\* admission with peers behind and ahead of the local chain, whatever the
\* local role
InitBehind ==
    /\ roles \in RoleSet
    /\ default_peers_set_num_full = MaxFull
    /\ default_peers_set_num_light = MaxLight
    /\ debug_assertions = FALSE
    /\ peers = << >>
    /\ default_peers_set_no_slot_connected_peers = {}
    /\ cs_peers = {}
    /\ pending_responses = << >>
    /\ next_slot = 1
    /\ slot_budget = MaxRequests
    /\ request_peers = PeerIds
    /\ completions = [s \in 1..slot_budget |-> 0]
    /\ pending_messages = << >>
    /\ panicked = FALSE
    /\ InitFacade
    /\ InitPallet
    /\ schedule_inputs = {}
    /\ task_budget = 0
    /\ last_block = 0
    /\ best_numbers = {0, LIGHT_MAXIMAL_BLOCKS_DIFFERENCE + 1}
    /\ announce_validations = 0
    /\ announce_budget = 1
    /\ block_announce_data_cache = {}
    /\ InitPool
    /\ produced = << >>
    /\ drained = << >>
    /\ last = NoLast

NextBehind ==
    \/ CustomProtocolOpen
    \/ CustomProtocolClosed

SpecBehind == InitBehind /\ [][NextBehind]_vars

\* the request/response side of the Reactor Loop: dispatch ticks, the network
\* layer resolving reply slots, and request completions
InitRequests ==
    /\ roles = "full"
    /\ default_peers_set_num_full = MaxFull
    /\ default_peers_set_num_light = MaxLight
    /\ debug_assertions \in BOOLEAN
    /\ peers = << >>
    /\ default_peers_set_no_slot_connected_peers = {}
    /\ cs_peers = {}
    /\ pending_responses = << >>
    /\ next_slot = 1
    /\ slot_budget = MaxDispatch
    /\ request_peers = 1..MaxEventPeers
    /\ completions = [s \in 1..slot_budget |-> 0]
    /\ pending_messages = << >>
    /\ panicked = FALSE
    /\ InitFacade
    /\ InitPallet
    /\ schedule_inputs = {}
    /\ task_budget = 0
    /\ last_block = 0
    /\ best_numbers = BestNumbers
    /\ announce_validations = 0
    /\ announce_budget = 1
    /\ block_announce_data_cache = {}
    /\ InitPool
    /\ produced = << >>
    /\ drained = << >>
    /\ last = NoLast

NextRequests ==
    \/ DispatchTick
    \/ ResolveReplySlot
    \/ PendingResponse

SpecRequests == InitRequests /\ [][NextRequests]_vars

\* the requests of one peer, with room for the follow-up request of a
\* completion
InitRouting ==
    /\ roles = "full"
    /\ default_peers_set_num_full = MaxFull
    /\ default_peers_set_num_light = MaxLight
    /\ debug_assertions = FALSE
    /\ peers = << >>
    /\ default_peers_set_no_slot_connected_peers = {}
    /\ cs_peers = {}
    /\ pending_responses = << >>
    /\ next_slot = 1
    /\ slot_budget = MaxDispatch + 1
    /\ request_peers = {1}
    /\ completions = [s \in 1..slot_budget |-> 0]
    /\ pending_messages = << >>
    /\ panicked = FALSE
    /\ InitFacade
    /\ InitPallet
    /\ schedule_inputs = {}
    /\ task_budget = 0
    /\ last_block = 0
    /\ best_numbers = BestNumbers
    /\ announce_validations = 0
    /\ announce_budget = 1
    /\ block_announce_data_cache = {}
    /\ InitPool
    /\ produced = << >>
    /\ drained = << >>
    /\ last = NoLast

NextRouting ==
    \/ DispatchTick
    \/ ResolveReplySlot
    \/ PendingResponse

SpecRouting == InitRouting /\ [][NextRouting]_vars

\* dispatch ticks and drains of the outcome queue, with room for several
\* requests in one tick
InitTicks ==
    /\ roles = "full"
    /\ default_peers_set_num_full = MaxFull
    /\ default_peers_set_num_light = MaxLight
    /\ debug_assertions \in BOOLEAN
    /\ peers = << >>
    /\ default_peers_set_no_slot_connected_peers = {}
    /\ cs_peers = {}
    /\ pending_responses = << >>
    /\ next_slot = 1
    /\ slot_budget = MaxTickSlots
    /\ request_peers = PeerIds
    /\ completions = [s \in 1..slot_budget |-> 0]
    /\ pending_messages = << >>
    /\ panicked = FALSE
    /\ InitFacade
    /\ InitPallet
    /\ schedule_inputs = {}
    /\ task_budget = 0
    /\ last_block = 0
    /\ best_numbers = BestNumbers
    /\ announce_validations = 0
    /\ announce_budget = 1
    /\ block_announce_data_cache = {}
    /\ InitPool
    /\ produced = << >>
    /\ drained = << >>
    /\ last = NoLast

NextTicks == DispatchTick

SpecTicks == InitTicks /\ [][NextTicks]_vars

\* the outcome queue: everything that appends to it or returns events, and
\* the drain
InitEvents ==
    /\ roles = "full"
    /\ default_peers_set_num_full = MaxFull
    /\ default_peers_set_num_light = MaxLight
    /\ debug_assertions \in BOOLEAN
    /\ peers = << >>
    /\ default_peers_set_no_slot_connected_peers = {}
    /\ cs_peers = {}
    /\ pending_responses = << >>
    /\ next_slot = 1
    /\ slot_budget = MaxDispatch
    /\ request_peers = 1..MaxEventPeers
    /\ completions = [s \in 1..slot_budget |-> 0]
    /\ pending_messages = << >>
    /\ panicked = FALSE
    /\ InitFacade
    /\ InitPallet
    /\ schedule_inputs = {}
    /\ task_budget = 0
    /\ last_block = 0
    /\ best_numbers = BestNumbers
    /\ announce_validations = 0
    /\ announce_budget = 1
    /\ block_announce_data_cache = {}
    /\ InitPool
    /\ produced = << >>
    /\ drained = << >>
    /\ last = NoLast

NextEvents ==
    \/ DispatchTick
    \/ ResolveReplySlot
    \/ PendingResponse
    \/ OnBlocksProcessed
    \/ GetEvents

SpecEvents == InitEvents /\ [][NextEvents]_vars

\* the messages of the remote peers of a full node: handshakes, closes and
\* notifications
InitNotify ==
    /\ roles = "full"
    /\ default_peers_set_num_full = MaxFull
    /\ default_peers_set_num_light = MaxLight
    /\ debug_assertions = FALSE
    /\ peers = << >>
    /\ default_peers_set_no_slot_connected_peers = {}
    /\ cs_peers = {}
    /\ pending_responses = << >>
    /\ next_slot = 1
    /\ slot_budget = MaxRequests
    /\ request_peers = PeerIds
    /\ completions = [s \in 1..slot_budget |-> 0]
    /\ pending_messages = << >>
    /\ panicked = FALSE
    /\ InitFacade
    /\ InitPallet
    /\ schedule_inputs = {}
    /\ task_budget = 0
    /\ last_block = 0
    /\ best_numbers = BestNumbers
    /\ announce_validations = 0
    /\ announce_budget = 1
    /\ block_announce_data_cache = {}
    /\ InitPool
    /\ produced = << >>
    /\ drained = << >>
    /\ last = NoLast

NextNotify ==
    \/ CustomProtocolOpen
    \/ CustomProtocolClosed
    \/ Notification

SpecNotify == InitNotify /\ [][NextNotify]_vars

\* run with peers in the Peer Table: the commands of a peer, the results of
\* imports, the dispatch tick and the completion of a request
InitAnnounce ==
    /\ roles = "full"
    /\ default_peers_set_num_full = 1
    /\ default_peers_set_num_light = 0
    /\ debug_assertions = FALSE
    /\ peers = << >>
    /\ default_peers_set_no_slot_connected_peers = {}
    /\ cs_peers = {}
    /\ pending_responses = << >>
    /\ next_slot = 1
    /\ slot_budget = 1
    /\ request_peers = {1}
    /\ completions = [s \in 1..slot_budget |-> 0]
    /\ pending_messages = << >>
    /\ panicked = FALSE
    /\ InitFacade
    /\ InitPallet
    /\ schedule_inputs = {}
    /\ task_budget = 0
    /\ last_block = 0
    /\ best_numbers = {0}
    /\ announce_validations = 0
    /\ announce_budget = 1
    /\ block_announce_data_cache = {}
    /\ InitPool
    /\ produced = << >>
    /\ drained = << >>
    /\ last = NoLast

NextAnnounce ==
    \/ CustomProtocolOpen
    \/ CustomProtocolClosed
    \/ Notification
    \/ DispatchTick
    \/ ResolveReplySlot
    \/ PendingResponse
    \/ OnBlocksProcessed
    \/ JustificationImportResult

SpecAnnounce == InitAnnounce /\ [][NextAnnounce]_vars

\* ----------------------------------------------- command facade and run loop
\* the three shapes of a SyncingHandle method: "fire" sends through the
\* handle's own sender and awaits nothing else (update_chain_info), "reply"
\* does the same and then awaits the reply slot (get_events), "query" sends
\* through a fresh clone of the sender and awaits the reply slot
\* (num_connected_peers)
Methods == {"fire", "reply", "query"}

\* a call that holds its borrow of the handle: it has started and not returned
InFlight(c) == calls[c].pc \in {"flushing", "sent"}

\* `&mut self` methods exclude every other call on the handle, `&self`
\* methods exclude only the `&mut self` ones
Borrowable(m) ==
    IF m = "query" THEN \A d \in CallIds : InFlight(d) => calls[d].method = "query"
    ELSE \A d \in CallIds : ~InFlight(d)

\* mpsc Sender::start_send of an unparked sender: the message is always
\* queued, and the sender parks when the queue then holds more than `buffer`
\* messages (futures::channel::mpsc, capacity = buffer + number of senders)
park_self(queue) == Len(queue) > ChannelBuffer

\* self.tx.send(..) / self.tx.clone().send(..): poll_ready of a sender that is
\* not parked succeeds, start_send queues the command, the flush waits while
\* the sender is parked
send(c, m) ==
    /\ calls[c].pc = "idle"
    /\ ~rx_closed
    /\ Borrowable(m)
    /\ rx_queue' = Append(rx_queue, c)
    /\ IF park_self(rx_queue')
       THEN /\ parked_queue' = Append(parked_queue, c)
            /\ calls' = [calls EXCEPT ![c] = [method |-> m, pc |-> "flushing",
                                              executed |-> FALSE]]
       ELSE /\ parked_queue' = parked_queue
            /\ calls' = [calls EXCEPT ![c] = [method |-> m, pc |-> "sent",
                                              executed |-> FALSE]]
    /\ UNCHANGED rx_closed

\* the flush of send completes once the receiver has unparked the sender
flushed(c) ==
    /\ calls[c].pc = "flushing"
    /\ \A i \in 1..Len(parked_queue) : parked_queue[i] # c
    /\ calls' = [calls EXCEPT ![c].pc = "sent"]
    /\ UNCHANGED <<rx_queue, rx_closed, parked_queue>>

\* mutant: every method returns as soon as its command is sent
may_return_AfterSend(call) == call.pc = "sent"

\* the rest of a handle method after the send: nothing for
\* update_chain_info and its like, `rx.await` on the reply slot for the others
may_return(call) == call.pc = "sent" /\ (call.method = "fire" \/ call.executed)

returns(c) ==
    /\ may_return(calls[c])
    /\ calls' = [calls EXCEPT ![c].pc = "returned"]
    /\ UNCHANGED <<rx_queue, rx_closed, parked_queue>>

\* the caller makes its next call; the id is free again once the command of
\* the call has left the queue
next_call(c) ==
    /\ calls[c].pc = "returned"
    /\ \A i \in 1..Len(rx_queue) : rx_queue[i] # c
    /\ calls' = [calls EXCEPT ![c] = NoCall]
    /\ UNCHANGED <<rx_queue, rx_closed, parked_queue>>

SyncVars == <<config, peers, default_peers_set_no_slot_connected_peers, cs_peers,
              pending_responses, next_slot, completions, pending_messages,
              panicked, history>>

Send == \E c \in CallIds : \E m \in Methods :
    send(c, m) /\ UNCHANGED <<SyncVars, reactor, announces, pallet, pool, last>>

Flushed == \E c \in CallIds : flushed(c) /\ UNCHANGED <<SyncVars, reactor, announces, pallet, pool, last>>

Returns == \E c \in CallIds : returns(c) /\ UNCHANGED <<SyncVars, reactor, announces, pallet, pool, last>>

NextCall == \E c \in CallIds : next_call(c) /\ UNCHANGED <<SyncVars, reactor, announces, pallet, pool, last>>

\* the last SyncingHandle is dropped: no call can hold a borrow of it
DropHandles ==
    /\ ~rx_closed
    /\ \A c \in CallIds : ~InFlight(c)
    /\ rx_closed' = TRUE
    /\ UNCHANGED <<rx_queue, parked_queue, calls, SyncVars, reactor, announces, pallet, pool, last>>

\* one iteration of `loop { select! { .. } }` ends: the next one creates a
\* new Delay
next_iteration ==
    /\ delay' = "armed"
    /\ iteration' = 1 - iteration

\* run, `command = self.rx.next().fuse()` with Some(command): the receiver
\* takes the oldest command and unparks the oldest parked sender, then
\* handle_command executes it and answers its reply slot
LoopCommand ==
    /\ rx_queue # << >>
    /\ ~panicked
    /\ rx_queue' = Tail(rx_queue)
    /\ parked_queue' = IF parked_queue = << >> THEN << >> ELSE Tail(parked_queue)
    /\ calls' = [calls EXCEPT ![Head(rx_queue)].executed = TRUE]
    /\ IF calls[Head(rx_queue)].method = "reply"
       THEN get_events
       ELSE /\ last' = Last("command", Head(rx_queue), 0, calls[Head(rx_queue)].method,
                            FALSE, "", TRUE, 0, FALSE, {}, {}, {}, <<>>, 0, FALSE)
            /\ UNCHANGED SyncVars
    /\ next_iteration
    /\ UNCHANGED <<rx_closed, announces, pallet, pool>>

\* run, `command = self.rx.next().fuse()` with None: `None => {}`, the loop
\* goes round again
LoopNone ==
    /\ rx_queue = << >>
    /\ rx_closed
    /\ ~panicked
    /\ last' = Last("rx_none", 0, 0, "", FALSE, "", TRUE, 0, FALSE, {}, {}, {},
                    <<>>, 0, FALSE)
    /\ next_iteration
    /\ UNCHANGED <<facade, SyncVars, announces, pallet, pool>>

\* run, `_ = futures_timer::Delay::new(Duration::from_millis(500)).fuse()`
LoopTick ==
    /\ delay = "elapsed"
    /\ \E batch \in Batches(slot_budget - next_slot + 1) : dispatch_tick(batch)
    /\ next_iteration
    /\ UNCHANGED <<facade, announces, pallet, pool>>

\* the Delay of the current iteration runs out: the iteration has been
\* waiting the whole time, so neither other branch of select! was ready
DelayElapses ==
    /\ delay = "armed"
    /\ rx_queue = << >>
    /\ ~rx_closed
    /\ pending_responses = << >>
    /\ delay' = "elapsed"
    /\ UNCHANGED <<facade, SyncVars, announces, pallet, pool, iteration, last>>

LoopStep == LoopCommand \/ LoopNone \/ LoopTick

\* the facade and the loop with an idle chain-sync collaborator
InitLoop ==
    /\ roles = "full"
    /\ default_peers_set_num_full = MaxFull
    /\ default_peers_set_num_light = MaxLight
    /\ debug_assertions = FALSE
    /\ peers = << >>
    /\ default_peers_set_no_slot_connected_peers = {}
    /\ cs_peers = {}
    /\ pending_responses = << >>
    /\ next_slot = 1
    /\ slot_budget = 0
    /\ request_peers = {}
    /\ completions = << >>
    /\ pending_messages = << >>
    /\ panicked = FALSE
    /\ InitFacade
    /\ InitPallet
    /\ schedule_inputs = {}
    /\ task_budget = 0
    /\ last_block = 0
    /\ best_numbers = BestNumbers
    /\ announce_validations = 0
    /\ announce_budget = 1
    /\ block_announce_data_cache = {}
    /\ InitPool
    /\ produced = << >>
    /\ drained = << >>
    /\ last = NoLast

NextLoop ==
    \/ Send
    \/ Flushed
    \/ Returns
    \/ NextCall
    \/ DropHandles
    \/ LoopCommand
    \/ LoopNone
    \/ LoopTick
    \/ DelayElapses

\* the executor polls run whenever one of its branches is ready, select!
\* picks at random among the ready branches, and time passes
FairLoop ==
    /\ WF_vars(LoopCommand)
    /\ WF_vars(LoopNone)
    /\ SF_vars(LoopTick)
    /\ WF_vars(DelayElapses)

SpecLoop == InitLoop /\ [][NextLoop]_vars /\ FairLoop

\* -------------------------------------------------------- scheduler pallet
\* frame/scheduler/src/lib.rs.  A task is named by the order of its
\* do_schedule call; `scheduled` keeps what the call was given.  The weights
\* the pallet charges for its own bookkeeping (T::WeightInfo) are taken as
\* zero, the weight of a call is the weight its dispatch info declares.
\* Agenda indices count from 1.
TaskIds == 1..MaxTasks
Priorities == {127}
Weights == {1, MaximumWeight + 1}

\* a call bounded inline (Preimage::bound) or by hash (Preimage::pick)
Calls == {"inline", "lookup"}

DispatchTimes ==
    [kind : {"At"}, n : 1..MaxBlock]
        \cup [kind : {"After"}, n : (0..MaxDelay) \cup {BlockNumberMax}]

\* T::PalletsOrigin; "" stands for no origin (Option::None)
Origins == {"root", "signed1", "signed2"}

\* T::OriginPrivilegeCmp::cmp_privilege: root is above every signed origin,
\* two different signed origins cannot be compared
cmp_privilege(left, right) ==
    IF left = right THEN "Equal"
    ELSE IF left = "root" THEN "Greater"
    ELSE IF right = "root" THEN "Less"
    ELSE "None"

\* the arguments of do_schedule (id = 0) and do_schedule_named; the call is
\* given by the weight it declares and the way it is bounded
ScheduleInput(when, period, priority, origin, weight, call, id) ==
    [when |-> when, maybe_periodic |-> period, priority |-> priority,
     origin |-> origin, weight |-> weight, call |-> call, id |-> id]

\* T::BlockNumber::saturating_add
saturating_add(a, b) == IF a + b > BlockNumberMax THEN BlockNumberMax ELSE a + b

\* mutant: After(x) resolves to x blocks after the current block
resolve_time_SameBlock(when) ==
    LET now == block_number
        w == IF when.kind = "At" THEN when.n ELSE saturating_add(now, when.n)
    IN  IF w <= now THEN [ok |-> FALSE, when |-> 0] ELSE [ok |-> TRUE, when |-> w]

\* Pallet::resolve_time
resolve_time(when) ==
    LET now == block_number
        w == IF when.kind = "At" THEN when.n
             ELSE saturating_add(saturating_add(now, when.n), 1)
    IN  IF w <= now THEN [ok |-> FALSE, when |-> 0] ELSE [ok |-> TRUE, when |-> w]

\* Agenda::<T>::get (ValueQuery), insert and remove
AgendaGet(agendas, when) == IF when \in DOMAIN agendas THEN agendas[when] ELSE << >>

AgendaInsert(agendas, when, agenda) ==
    [w \in DOMAIN agendas \cup {when} |-> IF w = when THEN agenda ELSE agendas[w]]

AgendaRemove(agendas, when) == [w \in DOMAIN agendas \ {when} |-> agendas[w]]

\* Lookup::<T>::insert and remove
LookupInsert(lookup, id, address) ==
    [n \in DOMAIN lookup \cup {id} |-> IF n = id THEN address ELSE lookup[n]]

LookupRemove(lookup, id) == [n \in DOMAIN lookup \ {id} |-> lookup[n]]

\* the storage the calls of the pallet read and write
Storage ==
    [agendas |-> Agenda, lookup |-> Lookup, periodic |-> maybe_periodic,
     events |-> events, preimages |-> preimages]

Event(ev, when, index) == [ev |-> ev, when |-> when, index |-> index]

deposit_event(s, ev, when, index) ==
    [s EXCEPT !.events = Append(@, Event(ev, when, index))]

\* the call returns Err and has written nothing
Err(e) == [res |-> e, s |-> Storage, when |-> 0, index |-> 0, task |-> 0]

\* Pallet::push_to_agenda: append while the agenda is below
\* MaxScheduledPerBlock, else reuse the first hole
push_to_agenda(agendas, when, what) ==
    LET agenda == AgendaGet(agendas, when)
        holes == {i \in 1..Len(agenda) : agenda[i] = 0}
        hole_index == CHOOSE i \in holes : \A j \in holes : i <= j
    IN  IF Len(agenda) < MaxScheduledPerBlock
        THEN [ok |-> TRUE, index |-> Len(agenda) + 1,
              agendas |-> AgendaInsert(agendas, when, Append(agenda, what))]
        ELSE IF holes # {}
        THEN [ok |-> TRUE, index |-> hole_index,
              agendas |-> AgendaInsert(agendas, when, [agenda EXCEPT ![hole_index] = what])]
        ELSE [ok |-> FALSE, index |-> 0, agendas |-> agendas]

\* Pallet::place_task of the task `what` named maybe_id (0 for None)
place_task(s, when, what, maybe_id) ==
    LET p == push_to_agenda(s.agendas, when, what)
        named == IF maybe_id # 0
                 THEN LookupInsert(s.lookup, maybe_id, <<when, p.index>>)
                 ELSE s.lookup
    IN  IF ~p.ok THEN [ok |-> FALSE, index |-> 0, s |-> s]
        ELSE [ok |-> TRUE, index |-> p.index,
              s |-> deposit_event([s EXCEPT !.agendas = p.agendas, !.lookup = named],
                                  "Scheduled", when, p.index)]

\* mutant: the repetition scheduled now is not taken off the count
sanitize_KeepCount(period) ==
    IF period # << >> /\ period[2] > 1 /\ period[1] # 0 THEN period ELSE << >>

\* do_schedule: `.filter(|p| p.1 > 1 && !p.0.is_zero()).map(|(p, c)| (p, c - 1))`
sanitize(period) ==
    IF period # << >> /\ period[2] > 1 /\ period[1] # 0
    THEN <<period[1], period[2] - 1>>
    ELSE << >>

\* mutant: At(n) is taken as it is given
do_schedule_Unresolved(x) ==
    LET what == Len(scheduled) + 1
        when == IF x.when.kind = "At" THEN x.when.n ELSE resolve_time(x.when).when
        placed == place_task(Storage, when, what, 0)
    IN  IF ~placed.ok THEN Err("Exhausted")
        ELSE [res |-> "Ok", when |-> when, index |-> placed.index, task |-> what,
              s |-> [placed.s EXCEPT
                        !.periodic = Append(@, sanitize(x.maybe_periodic))]]

\* Pallet::do_schedule: the task made of x becomes task Len(scheduled) + 1
do_schedule(x) ==
    LET what == Len(scheduled) + 1
        r == resolve_time(x.when)
        placed == place_task(Storage, r.when, what, 0)
    IN  IF ~r.ok THEN Err("TargetBlockNumberInPast")
        ELSE IF ~placed.ok THEN Err("Exhausted")
        ELSE [res |-> "Ok", when |-> r.when, index |-> placed.index, task |-> what,
              s |-> [placed.s EXCEPT
                        !.periodic = Append(@, sanitize(x.maybe_periodic))]]

\* Pallet::do_schedule_named
do_schedule_named(x) ==
    LET what == Len(scheduled) + 1
        r == resolve_time(x.when)
        placed == place_task(Storage, r.when, what, x.id)
    IN  IF x.id \in DOMAIN Lookup THEN Err("FailedToSchedule")
        ELSE IF ~r.ok THEN Err("TargetBlockNumberInPast")
        ELSE IF ~placed.ok THEN Err("Exhausted")
        ELSE [res |-> "Ok", when |-> r.when, index |-> placed.index, task |-> what,
              s |-> [placed.s EXCEPT
                        !.periodic = Append(@, sanitize(x.maybe_periodic))]]

\* T::Preimages::drop(&task.call)
drop(s, t) == [s EXCEPT !.preimages = @ \ {t}]

\* the task in a slot, 0 for an empty slot and for no slot
TaskAt(when, index) ==
    IF index \in 1..Len(AgendaGet(Agenda, when)) THEN AgendaGet(Agenda, when)[index]
    ELSE 0

\* mutant: any origin may cancel
do_cancel_Unchecked(origin, when, index) ==
    LET agenda == AgendaGet(Agenda, when)
        t == TaskAt(when, index)
        taken == [Storage EXCEPT
                     !.agendas = AgendaInsert(@, when, [agenda EXCEPT ![index] = 0])]
        unnamed == IF scheduled[t].id # 0
                   THEN [taken EXCEPT !.lookup = LookupRemove(@, scheduled[t].id)]
                   ELSE taken
    IN  IF t = 0 THEN Err("NotFound")
        ELSE [res |-> "Ok", when |-> when, index |-> index, task |-> t,
              s |-> deposit_event(drop(unnamed, t), "Canceled", when, index)]

\* Pallet::do_cancel.  Agenda::try_mutate of an agenda that holds nothing
\* leaves Agenda::get as it was.
do_cancel(origin, when, index) ==
    LET agenda == AgendaGet(Agenda, when)
        t == TaskAt(when, index)
        taken == [Storage EXCEPT
                     !.agendas = AgendaInsert(@, when, [agenda EXCEPT ![index] = 0])]
        unnamed == IF scheduled[t].id # 0
                   THEN [taken EXCEPT !.lookup = LookupRemove(@, scheduled[t].id)]
                   ELSE taken
    IN  IF t = 0 THEN Err("NotFound")
        ELSE IF origin # "" /\ cmp_privilege(origin, scheduled[t].origin) \in {"Less", "None"}
        THEN Err("BadOrigin")
        ELSE [res |-> "Ok", when |-> when, index |-> index, task |-> t,
              s |-> deposit_event(drop(unnamed, t), "Canceled", when, index)]

\* Pallet::do_cancel_named
do_cancel_named(origin, id) ==
    LET when == Lookup[id][1]
        index == Lookup[id][2]
        agenda == AgendaGet(Agenda, when)
        t == TaskAt(when, index)
        taken == IF index \in 1..Len(agenda)
                 THEN [Storage EXCEPT
                          !.agendas = AgendaInsert(@, when, [agenda EXCEPT ![index] = 0])]
                 ELSE Storage
        dropped == IF origin # "" /\ t # 0 THEN drop(taken, t) ELSE taken
    IN  IF id \notin DOMAIN Lookup THEN Err("NotFound")
        ELSE IF /\ origin # ""
                /\ t # 0
                /\ cmp_privilege(origin, scheduled[t].origin) \in {"Less", "None"}
        THEN Err("BadOrigin")
        ELSE [res |-> "Ok", when |-> when, index |-> index, task |-> t,
              s |-> deposit_event([dropped EXCEPT !.lookup = LookupRemove(@, id)],
                                  "Canceled", when, index)]

\* mutant: the task is placed anew and stays in its old slot as well
replace_task_KeepOld(when, index, t, new_time) ==
    LET taken == deposit_event(Storage, "Canceled", when, index)
        placed == place_task(taken, new_time, t, scheduled[t].id)
    IN  IF ~placed.ok
        THEN [res |-> "Exhausted", when |-> when, index |-> index, task |-> t,
              s |-> taken]
        ELSE [res |-> "Ok", when |-> new_time, index |-> placed.index, task |-> t,
              s |-> placed.s]

\* the rest of do_reschedule and do_reschedule_named once the task t has
\* been taken out of its slot: a task that cannot be placed is not put back
replace_task(when, index, t, new_time) ==
    LET agenda == AgendaGet(Agenda, when)
        taken == deposit_event(
                     [Storage EXCEPT
                         !.agendas = AgendaInsert(@, when, [agenda EXCEPT ![index] = 0])],
                     "Canceled", when, index)
        placed == place_task(taken, new_time, t, scheduled[t].id)
    IN  IF ~placed.ok
        THEN [res |-> "Exhausted", when |-> when, index |-> index, task |-> t,
              s |-> taken]
        ELSE [res |-> "Ok", when |-> new_time, index |-> placed.index, task |-> t,
              s |-> placed.s]

\* Pallet::do_reschedule
do_reschedule(when, index, new_time) ==
    LET r == resolve_time(new_time)
        agenda == AgendaGet(Agenda, when)
        t == TaskAt(when, index)
    IN  IF ~r.ok THEN Err("TargetBlockNumberInPast")
        ELSE IF r.when = when THEN Err("RescheduleNoChange")
        ELSE IF t = 0 THEN Err("NotFound")
        ELSE IF scheduled[t].id # 0 THEN Err("Named")
        ELSE replace_task(when, index, t, r.when)

\* Pallet::do_reschedule_named
do_reschedule_named(id, new_time) ==
    LET r == resolve_time(new_time)
        when == Lookup[id][1]
        index == Lookup[id][2]
        agenda == AgendaGet(Agenda, when)
        t == TaskAt(when, index)
    IN  IF ~r.ok THEN Err("TargetBlockNumberInPast")
        ELSE IF id \notin DOMAIN Lookup THEN Err("NotFound")
        ELSE IF r.when = when THEN Err("RescheduleNoChange")
        ELSE IF t = 0 THEN Err("NotFound")
        ELSE replace_task(when, index, t, r.when)

\* T::Preimages::peek(&task.call)
peek(t) == scheduled[t].call = "inline" \/ t \in preimages

\* mutant: the call runs whatever its weight
execute_dispatch_Unlimited(t, used) ==
    [res |-> "Ok", used |-> used + scheduled[t].weight]

\* Pallet::execute_dispatch: the call runs only if its weight still fits
execute_dispatch(t, used) ==
    IF used + scheduled[t].weight > MaximumWeight
    THEN [res |-> "Overweight", used |-> used]
    ELSE [res |-> "Ok", used |-> used + scheduled[t].weight]

\* service_task, the arm of a call that was dispatched: a periodic task is
\* placed again at now + period with one repetition less
dispatched(st, when, now, t, agenda_index) ==
    LET period == st.s.periodic[t]
        s1 == deposit_event(st.s, "Dispatched", when, agenda_index)
        left == IF period[2] > 1 THEN <<period[1], period[2] - 1>> ELSE << >>
        s2 == [s1 EXCEPT !.periodic[t] = left]
        placed == place_task(s2, now + period[1], t, scheduled[t].id)
    IN  IF period = << >> THEN drop(s1, t)
        ELSE IF placed.ok THEN placed.s
        ELSE deposit_event(drop(s2, t), "PeriodicFailed", when, agenda_index)

\* Pallet::service_task
service_task(st, when, now, t, is_first, agenda_index) ==
    LET s1 == IF scheduled[t].id # 0
              THEN [st.s EXCEPT !.lookup = LookupRemove(@, scheduled[t].id)]
              ELSE st.s
        d == execute_dispatch(t, st.used)
    IN  IF ~peek(t) THEN [res |-> "Unavailable", st |-> [st EXCEPT !.s = s1]]
        ELSE IF d.res = "Overweight" /\ is_first
        THEN [res |-> "Unavailable",
              st |-> [st EXCEPT
                         !.s = deposit_event(s1, "PermanentlyOverweight", when,
                                             agenda_index)]]
        ELSE IF d.res = "Overweight"
        THEN [res |-> "Overweight", st |-> [st EXCEPT !.s = s1]]
        ELSE [res |-> "Ok",
              st |-> [st EXCEPT
                         !.s = dispatched([st EXCEPT !.s = s1], when, now, t,
                                          agenda_index),
                         !.used = d.used,
                         !.log = Append(@, [task |-> t, block |-> now])]]

\* mutant: the slots are serviced in the order of the agenda
sort_by_key_Unsorted(agenda, indices) ==
    [k \in 1..Card(indices) |->
        CHOOSE i \in indices : Card({j \in indices : j < i}) = k - 1]

\* service_agenda: `ordered.sort_by_key(|k| k.1)`, a stable sort of the
\* occupied slots by priority
RECURSIVE sort_by_key(_, _)
sort_by_key(agenda, indices) ==
    IF indices = {} THEN << >>
    ELSE LET first == CHOOSE i \in indices : \A j \in indices :
                          \/ scheduled[agenda[i]].priority < scheduled[agenda[j]].priority
                          \/ /\ scheduled[agenda[i]].priority = scheduled[agenda[j]].priority
                             /\ i <= j
         IN  <<first>> \o sort_by_key(agenda, indices \ {first})

\* service_agenda: the loop over the ordered slots
RECURSIVE service_tasks(_, _, _, _)
service_tasks(st, ordered, when, now) ==
    IF ordered = << >> THEN st
    ELSE LET i == Head(ordered)
             next(r) == IF r.res = "Ok"
                        THEN [r.st EXCEPT !.agenda[i] = 0, !.executed = @ + 1]
                        ELSE IF r.res = "Unavailable"
                        THEN [r.st EXCEPT !.dropped = @ + 1]
                        ELSE [r.st EXCEPT !.postponed = @ + 1]
         IN  service_tasks(next(service_task(st, when, now, st.agenda[i],
                                             st.executed = 0, i)),
                           Tail(ordered), when, now)

\* Pallet::service_agenda with max = u32::max_value()
service_agenda(st, when, now) ==
    LET agenda == AgendaGet(st.s.agendas, when)
        ordered == sort_by_key(agenda, {i \in 1..Len(agenda) : agenda[i] # 0})
        serviced(done) ==
            [s |-> [done.s EXCEPT
                       !.agendas = IF done.postponed > 0 \/ done.dropped > 0
                                   THEN AgendaInsert(@, when, done.agenda)
                                   ELSE AgendaRemove(@, when)],
             used |-> done.used, executed |-> done.executed, log |-> done.log,
             incomplete_since |-> IF done.postponed = 0 THEN st.incomplete_since
                                  ELSE IF when < st.incomplete_since THEN when
                                  ELSE st.incomplete_since]
    IN  serviced(service_tasks([agenda |-> agenda, s |-> st.s, used |-> st.used,
                                executed |-> st.executed, log |-> st.log,
                                postponed |-> 0, dropped |-> 0], ordered, when, now))

\* service_agendas: `while count_down > 0 && when <= now && ..`
RECURSIVE service_from(_, _, _)
service_from(st, when, now) ==
    IF when > now THEN st
    ELSE service_from(service_agenda(st, when, now), when + 1, now)

\* Pallet::service_agendas with max = u32::max_value()
service_agendas(now) ==
    LET when == IF IncompleteSince = 0 THEN now ELSE IncompleteSince
        finished(st) ==
            [s |-> st.s, log |-> st.log,
             incomplete_since |-> IF st.incomplete_since <= now
                                  THEN st.incomplete_since ELSE 0]
    IN  finished(service_from([s |-> Storage, used |-> 0, executed |-> 0,
                               log |-> log, incomplete_since |-> now + 1], when, now))

\* the storage after a call
Stored(s) ==
    /\ Agenda' = s.agendas
    /\ Lookup' = s.lookup
    /\ maybe_periodic' = s.periodic
    /\ events' = s.events
    /\ preimages' = s.preimages

\* Hooks::on_initialize(now)
on_initialize(now) ==
    \E r \in {service_agendas(now)} :
        /\ Stored(r.s)
        /\ log' = r.log
        /\ IncompleteSince' = r.incomplete_since
        /\ outcome' = [NoOutcome EXCEPT !.call = "on_initialize", !.res = "Ok",
                                        !.when = now]

SyncingVars == <<SyncVars, facade, reactor, announces, pool, last>>

Schedule(x) == IF x.id = 0 THEN do_schedule(x) ELSE do_schedule_named(x)

\* schedule and schedule_named, the calls that return Ok
DoSchedule ==
    /\ Len(scheduled) < task_budget
    /\ \E x \in schedule_inputs : \E r \in {Schedule(x)} :
            /\ r.res = "Ok"
            /\ Stored(r.s)
            /\ scheduled' = Append(scheduled,
                                   [at |-> block_number, time |-> x.when, when |-> r.when,
                                    priority |-> x.priority, weight |-> x.weight,
                                    call |-> x.call, id |-> x.id, origin |-> x.origin,
                                    maybe_periodic |-> x.maybe_periodic])
            /\ outcome' = [NoOutcome EXCEPT !.call = "schedule", !.res = "Ok",
                                            !.origin = x.origin, !.when = r.when,
                                            !.index = r.index, !.id = x.id,
                                            !.time = x.when, !.task = r.task]
            /\ UNCHANGED <<block_number, IncompleteSince, log, SyncingVars>>

\* schedule and schedule_named, the calls that return Err
ScheduleFails ==
    \E x \in schedule_inputs : \E r \in {Schedule(x)} :
        /\ r.res # "Ok"
        /\ Stored(r.s)
        /\ outcome' = [NoOutcome EXCEPT !.call = "schedule", !.res = r.res,
                                        !.origin = x.origin, !.id = x.id,
                                        !.time = x.when]
        /\ UNCHANGED <<block_number, IncompleteSince, scheduled, log, SyncingVars>>

\* the addresses a caller names: the slots of the agendas
Addresses == {<<w, i>> : w \in DOMAIN Agenda, i \in 1..MaxScheduledPerBlock}

\* T::ScheduleOrigin admits root and the signed origins; "" is a call
\* through schedule::Anon or schedule::Named, which has no origin
CancelOrigins == {"", "root", "signed1", "signed2"}

\* cancel, and Anon::cancel
Cancel ==
    \E origin \in CancelOrigins : \E a \in Addresses :
        \E r \in {do_cancel(origin, a[1], a[2])} :
            /\ Stored(r.s)
            /\ outcome' = [NoOutcome EXCEPT !.call = "cancel", !.res = r.res,
                                            !.origin = origin, !.when = a[1],
                                            !.index = a[2],
                                            !.task = TaskAt(a[1], a[2])]
            /\ UNCHANGED <<block_number, IncompleteSince, scheduled, log, SyncingVars>>

TaskNames == {1}

\* cancel_named, and Named::cancel_named
CancelNamed ==
    \E origin \in CancelOrigins : \E id \in TaskNames :
        \E r \in {do_cancel_named(origin, id)} :
            /\ Stored(r.s)
            /\ outcome' = [NoOutcome EXCEPT !.call = "cancel_named", !.res = r.res,
                                            !.origin = origin, !.when = r.when,
                                            !.index = r.index, !.id = id,
                                            !.task = IF id \in DOMAIN Lookup
                                                     THEN TaskAt(Lookup[id][1],
                                                                 Lookup[id][2])
                                                     ELSE 0]
            /\ UNCHANGED <<block_number, IncompleteSince, scheduled, log, SyncingVars>>

RescheduleTimes == [kind : {"At"}, n : 1..last_block]

\* the tasks taken out of their slot by a caller so far
Moves == Card({i \in 1..Len(events) : events[i].ev = "Canceled"})

\* reschedule, and Anon::reschedule
Reschedule ==
    /\ Moves < MaxMoves
    /\ \E a \in Addresses : \E new_time \in RescheduleTimes :
        \E r \in {do_reschedule(a[1], a[2], new_time)} :
            /\ Stored(r.s)
            /\ outcome' = [NoOutcome EXCEPT !.call = "reschedule", !.res = r.res,
                                            !.when = a[1], !.index = a[2],
                                            !.time = new_time,
                                            !.task = TaskAt(a[1], a[2])]
            /\ UNCHANGED <<block_number, IncompleteSince, scheduled, log, SyncingVars>>

\* reschedule_named, and Named::reschedule_named
RescheduleNamed ==
    /\ Moves < MaxMoves
    /\ \E id \in TaskNames : \E new_time \in RescheduleTimes :
        \E r \in {do_reschedule_named(id, new_time)} :
            /\ Stored(r.s)
            /\ outcome' = [NoOutcome EXCEPT
                              !.call = "reschedule_named", !.res = r.res, !.id = id,
                              !.when = IF id \in DOMAIN Lookup THEN Lookup[id][1] ELSE 0,
                              !.index = IF id \in DOMAIN Lookup THEN Lookup[id][2] ELSE 0,
                              !.time = new_time,
                              !.task = IF id \in DOMAIN Lookup
                                       THEN TaskAt(Lookup[id][1], Lookup[id][2]) ELSE 0]
            /\ UNCHANGED <<block_number, IncompleteSince, scheduled, log, SyncingVars>>

\* the preimage of a call scheduled by hash is noted
NotePreimage ==
    \E t \in DOMAIN scheduled :
        /\ scheduled[t].call = "lookup"
        /\ t \notin preimages
        /\ \A i \in 1..Len(log) : log[i].task # t
        /\ preimages' = preimages \cup {t}
        /\ UNCHANGED <<block_number, Agenda, IncompleteSince, scheduled, log, Lookup,
                       maybe_periodic, events, outcome, SyncingVars>>

\* the next block begins
NextBlock ==
    /\ block_number < last_block
    /\ block_number' = block_number + 1
    /\ on_initialize(block_number + 1)
    /\ UNCHANGED <<scheduled, SyncingVars>>

\* nothing but the pallet runs
InitIdle ==
    /\ roles = "full"
    /\ default_peers_set_num_full = MaxFull
    /\ default_peers_set_num_light = MaxLight
    /\ debug_assertions = FALSE
    /\ peers = << >>
    /\ default_peers_set_no_slot_connected_peers = {}
    /\ cs_peers = {}
    /\ pending_responses = << >>
    /\ next_slot = 1
    /\ slot_budget = 0
    /\ request_peers = {}
    /\ completions = << >>
    /\ pending_messages = << >>
    /\ panicked = FALSE
    /\ InitFacade
    /\ InitPallet
    /\ best_numbers = BestNumbers
    /\ announce_validations = 0
    /\ announce_budget = 1
    /\ block_announce_data_cache = {}
    /\ InitPool
    /\ produced = << >>
    /\ drained = << >>
    /\ last = NoLast

\* tasks that are not periodic, anonymous and scheduled by root: inline
\* calls of every weight and calls by hash that fit a block
SchedulerInputs ==
    {ScheduleInput(when, << >>, priority, "root", weight, "inline", 0) :
        when \in DispatchTimes, priority \in Priorities, weight \in Weights}
    \cup {ScheduleInput(when, << >>, priority, "root", 1, "lookup", 0) :
              when \in DispatchTimes, priority \in Priorities}

InitScheduler ==
    /\ InitIdle
    /\ schedule_inputs = SchedulerInputs
    /\ task_budget = MaxTasks
    /\ last_block = MaxBlock

NextScheduler ==
    \/ DoSchedule
    \/ NotePreimage
    \/ NextBlock

SpecScheduler == InitScheduler /\ [][NextScheduler]_vars

\* periodic tasks: (period, count) as callers give it, some of it not a
\* period (a zero period, a single repetition)
Periods == {<< >>, <<1, 2>>, <<2, 2>>, <<1, 3>>, <<0, 2>>, <<1, 1>>}

PeriodicInputs ==
    {ScheduleInput(At(n), period, 127, "root", 1, "inline", 0) :
        n \in 1..MaxBlock, period \in Periods}

InitPeriodic ==
    /\ InitIdle
    /\ schedule_inputs = PeriodicInputs
    /\ task_budget = MaxTasks
    /\ last_block = MaxBlock + 2

NextPeriodic ==
    \/ DoSchedule
    \/ NextBlock

SpecPeriodic == InitPeriodic /\ [][NextPeriodic]_vars

\* tasks of two priorities, one of them a hard deadline
\* (priority <= schedule::HARD_DEADLINE)
HardDeadlines == {0}

PriorityInputs ==
    {ScheduleInput(At(n), << >>, priority, "root", weight, "inline", 0) :
        n \in 1..MaxBlock, priority \in HardDeadlines \cup Priorities,
        weight \in {MaximumWeight - 1, MaximumWeight}}

InitPriority ==
    /\ InitIdle
    /\ schedule_inputs = PriorityInputs
    /\ task_budget = MaxTasks
    /\ last_block = MaxBlock

NextPriority ==
    \/ DoSchedule
    \/ NextBlock

SpecPriority == InitPriority /\ [][NextPriority]_vars

\* named and anonymous tasks of two origins, and callers that cancel them
CancelInputs ==
    {ScheduleInput(At(n), << >>, 127, origin, 1, "inline", id) :
        n \in {1, MaxBlock}, origin \in {"root", "signed1"}, id \in {0} \cup TaskNames}

InitCancel ==
    /\ InitIdle
    /\ schedule_inputs = CancelInputs
    /\ task_budget = MaxTasks - 1
    /\ last_block = MaxBlock

NextCancel ==
    \/ DoSchedule
    \/ ScheduleFails
    \/ Cancel
    \/ CancelNamed
    \/ NextBlock

SpecCancel == InitCancel /\ [][NextCancel]_vars

\* named and anonymous tasks, periodic or not, and callers that move them;
\* the preimage of a call scheduled by hash is never noted
RescheduleInputs ==
    {ScheduleInput(At(1), period, 127, "root", 1, call, id) :
        period \in {<< >>, <<1, 2>>}, call \in Calls, id \in {0} \cup TaskNames}

InitReschedule ==
    /\ InitIdle
    /\ schedule_inputs = RescheduleInputs
    /\ task_budget = MaxTasks - 1
    /\ last_block = MaxBlock + 1

NextReschedule ==
    \/ DoSchedule
    \/ Reschedule
    \/ RescheduleNamed
    \/ NextBlock

SpecReschedule == InitReschedule /\ [][NextReschedule]_vars

\* --------------------------------------- transaction pool enactment policy
\* client/transaction-pool/src/lib.rs.  The chain of the documentation of
\* EnactmentPolicy: A with the forks B1-C1-D1-E1 and B2-C2-D2-E2.
Blocks == {"A", "B1", "C1", "D1", "E1", "B2", "C2", "D2", "E2"}

Parent(b) ==
    CASE b = "B1" -> "A"  [] b = "C1" -> "B1" [] b = "D1" -> "C1" [] b = "E1" -> "D1"
      [] b = "B2" -> "A"  [] b = "C2" -> "B2" [] b = "D2" -> "C2" [] b = "E2" -> "D2"
      [] OTHER -> ""

\* a block and its ancestors
RECURSIVE Ancestry(_)
Ancestry(b) == IF b = "" THEN {} ELSE {b} \cup Ancestry(Parent(b))

\* mutant: the route does not retract the block it starts from
retracted_WithoutFrom(from, to) == (Ancestry(from) \ Ancestry(to)) \ {from}

\* api.tree_route(from, to): the blocks left behind, from `from` down to the
\* common ancestor (excluded), and the blocks gained, up to `to`
retracted(from, to) == Ancestry(from) \ Ancestry(to)

enacted(from, to) == Ancestry(to) \ Ancestry(from)

ChainEvents == [kind : {"NewBestBlock", "Finalized"}, hash : Blocks]

\* EnactmentHelper::resolve: the result and the two fields afterwards
resolve(hash, finalized) ==
    LET route == best_block # ""
        was_finalized_retracted ==
            /\ finalized_block # ""
            /\ route
            /\ finalized_block \in retracted(best_block, hash)
        best_block_retracted ==
            /\ best_block # ""
            /\ route
            /\ best_block \in retracted(best_block, hash)
        same == [result |-> FALSE, best |-> best_block, fin |-> finalized_block]
    IN  IF finalized_block # "" /\ finalized_block = hash THEN same
        ELSE IF was_finalized_retracted THEN same
        ELSE IF finalized /\ route /\ enacted(best_block, hash) = {}
        THEN [same EXCEPT !.fin = hash]
        ELSE IF finalized
        THEN [result |-> TRUE,
              best |-> IF best_block_retracted \/ best_block = "" THEN hash
                       ELSE best_block,
              fin |-> hash]
        ELSE [result |-> TRUE, best |-> hash, fin |-> finalized_block]

\* EnactmentHelper::should_handle_enactment
should_handle_enactment(event) ==
    \E r \in {resolve(event.hash, event.kind = "Finalized")} :
        /\ Len(trace) < MaxEvents
        /\ best_block' = r.best
        /\ finalized_block' = r.fin
        /\ trace' = Append(trace, [event |-> event, result |-> r.result])

OutsidePool == <<SyncVars, facade, reactor, announces, pallet, last>>

ShouldHandleEnactment ==
    \E event \in ChainEvents :
        /\ should_handle_enactment(event)
        /\ UNCHANGED OutsidePool

InitEnactment ==
    /\ roles = "full"
    /\ default_peers_set_num_full = MaxFull
    /\ default_peers_set_num_light = MaxLight
    /\ debug_assertions = FALSE
    /\ peers = << >>
    /\ default_peers_set_no_slot_connected_peers = {}
    /\ cs_peers = {}
    /\ pending_responses = << >>
    /\ next_slot = 1
    /\ slot_budget = 0
    /\ request_peers = {}
    /\ completions = << >>
    /\ pending_messages = << >>
    /\ panicked = FALSE
    /\ InitFacade
    /\ InitPallet
    /\ schedule_inputs = {}
    /\ task_budget = 0
    /\ last_block = 0
    /\ best_numbers = BestNumbers
    /\ announce_validations = 0
    /\ announce_budget = 1
    /\ block_announce_data_cache = {}
    /\ InitPool
    /\ produced = << >>
    /\ drained = << >>
    /\ last = NoLast

NextEnactment == ShouldHandleEnactment

SpecEnactment == InitEnactment /\ [][NextEnactment]_vars

\* the request/response side under the scheduling of run: select! picks at
\* random among its ready branches and FuturesUnordered queues every future
\* that becomes ready, so a pending response that stays ready is taken
CompletePending(s) ==
    /\ s \in DOMAIN pending_responses
    /\ \E class \in ResponseClasses :
        \E detail \in Details(pending_responses[s], class) :
            /\ handle_pending_response(s, class, detail)
            /\ UNCHANGED <<facade, reactor, announces, pallet, pool>>

FairRequests == \A s \in 1..MaxDispatch : WF_vars(CompletePending(s))

LiveSpecRequests == InitRequests /\ [][NextRequests]_vars /\ FairRequests

\* ------------------------------------------------------------------ claims
FullPeers == {p \in DOMAIN peers : is_full(peers[p])}
LightPeers == {p \in DOMAIN peers : is_light(peers[p])}
EventTypes(out) == {out[i].type : i \in 1..Len(out)}

\* the last handler was on_sync_peer_connected, called for a peer that was
\* not in the Peer Table, with a decoded handshake
FirstHandshake ==
    /\ last.op = "open"
    /\ last.input = "handshake"
    /\ ~last.known

\* C1: in every reachable state the number of full-role peers in the Peer
\* Table is at most default_peers_set_num_full plus the size of the
\* no-slot-connected set.
C1_FullSlotBudget ==
    Card(FullPeers) <= default_peers_set_num_full
                        + Card(default_peers_set_no_slot_connected_peers)

\* the budget is used up and one more full peer has just been turned away
C1_Witness ==
    /\ FirstHandshake
    /\ last.hs_roles = "full"
    /\ ~last.accepted
    /\ last.disc = {last.who}
    /\ last.rep = {}
    /\ default_peers_set_num_full >= 1
    /\ Card(FullPeers) = default_peers_set_num_full

\* C2: a peer accepted by custom_protocol_open was not in the Peer Table
\* before and is in it afterwards; it leaves the table only when a
\* custom_protocol_close for it is serviced; a protocol-open for a peer that
\* is in the table is not accepted, returns no SyncConnected and changes
\* neither the table nor the no-slot-connected set; after a close the peer is
\* in neither the table nor the no-slot-connected set.
C2_Step ==
    /\ (last'.op = "open" /\ last'.accepted) =>
            /\ last'.who \notin DOMAIN peers
            /\ last'.who \in DOMAIN peers'
            /\ \A p \in DOMAIN peers : p \in DOMAIN peers' /\ peers'[p] = peers[p]
            /\ "SyncConnected" \in EventTypes(last'.out)
    /\ \A p \in DOMAIN peers :
            p \notin DOMAIN peers' => (last'.op = "close" /\ last'.who = p)
    /\ (last'.op = "open" /\ last'.who \in DOMAIN peers) =>
            /\ ~last'.accepted
            /\ "SyncConnected" \notin EventTypes(last'.out)
            /\ peers' = peers
            /\ default_peers_set_no_slot_connected_peers'
                   = default_peers_set_no_slot_connected_peers
    /\ last'.op = "close" =>
            /\ last'.who \notin DOMAIN peers'
            /\ last'.who \notin default_peers_set_no_slot_connected_peers'

C3_NoSlotSubset ==
    default_peers_set_no_slot_connected_peers \subseteq DOMAIN peers

\* a close has been serviced for a connected peer while others stay connected
C3_Witness ==
    /\ last.op = "close"
    /\ last.accepted
    /\ DOMAIN peers # {}
    /\ last.who \notin DOMAIN peers

\* C6 as stated: a light local node with a light budget of 2 admits the first
\* two light-role peers with the right genesis hash and turns the third away
\* with a disconnect and no penalty.
C6_Original ==
    (/\ FirstHandshake
     /\ is_light(roles)
     /\ default_peers_set_num_light = 2
     /\ last.hs_roles = "light"
     /\ last.genesis_ok) =>
        IF Card(LightPeers \ {last.who}) < 2
        THEN /\ last.accepted
             /\ last.who \in LightPeers
             /\ "SyncConnected" \in EventTypes(last.out)
        ELSE /\ ~last.accepted
             /\ last.disc = {last.who}
             /\ last.rep = {}

\* C6, amended: a full local node admits a light-role peer with the right
\* genesis hash while fewer light peers than the light budget are in the
\* table (the first two for a budget of 2) and turns the next one away with a
\* disconnect and no penalty; a light local node turns every light-role peer
\* away with a disconnect and the BAD_ROLE penalty.
C6_LightSlots ==
    (/\ FirstHandshake
     /\ last.hs_roles = "light"
     /\ last.genesis_ok) =>
        IF is_light(roles)
        THEN /\ ~last.accepted
             /\ last.disc = {last.who}
             /\ last.rep = {<<last.who, "BAD_ROLE">>}
             /\ last.who \notin DOMAIN peers
        ELSE IF Card(LightPeers \ {last.who}) < default_peers_set_num_light
        THEN /\ last.accepted
             /\ last.who \in LightPeers
             /\ "SyncConnected" \in EventTypes(last.out)
             /\ last.disc = {} /\ last.rep = {}
        ELSE /\ ~last.accepted
             /\ last.who \notin DOMAIN peers
             /\ last.disc = {last.who}
             /\ last.rep = {}
             /\ EventTypes(last.out) = {"None"}

\* a full local node with a light budget of 2 holds two light peers and has
\* just turned the third away with a disconnect only
C6_Witness ==
    /\ FirstHandshake
    /\ is_full(roles)
    /\ default_peers_set_num_light = 2
    /\ last.hs_roles = "light"
    /\ last.genesis_ok
    /\ Card(LightPeers) = 2
    /\ ~last.accepted
    /\ last.disc = {last.who}
    /\ last.rep = {}

\* C7: a handshake with a genesis hash other than the local one, on the first
\* connection of a peer, is rejected: the peer is disconnected and penalized
\* with GENESIS_MISMATCH, the reply holds no SyncConnected, new_peer is not
\* called, and the Peer Table, the no-slot-connected set and the peers the
\* collaborator tracks are unchanged.
C7_Step ==
    (/\ last'.op = "open"
     /\ last'.input = "handshake"
     /\ ~last'.known
     /\ ~last'.genesis_ok) =>
        /\ ~last'.accepted
        /\ last'.disc = {last'.who}
        /\ last'.rep = {<<last'.who, "GENESIS_MISMATCH">>}
        /\ EventTypes(last'.out) = {"None"}
        /\ "new_peer" \notin last'.cb
        /\ peers' = peers
        /\ default_peers_set_no_slot_connected_peers'
               = default_peers_set_no_slot_connected_peers
        /\ cs_peers' = cs_peers
        /\ pending_responses' = pending_responses

Completed == last.op = "complete"

\* the chain-sync data callbacks
DataCallbacks == {"on_block_data", "on_state_data", "on_warp_sync_data",
                  "on_block_justification"}
RequestEvents == {"BlockRequest", "StateRequest", "WarpSyncRequest"}

\* the records created so far (reply slots 1..next_slot-1) that no
\* handle_pending_response call has been made for
NotYetCompleted == {s \in 1..(next_slot - 1) : completions[s] = 0}

C4_ExactlyOnce ==
    /\ \A s \in 1..slot_budget : completions[s] <= 1
    /\ \A s \in DOMAIN pending_responses : completions[s] = 0
    /\ DOMAIN pending_responses = NotYetCompleted
    /\ Card(DOMAIN pending_responses) = Card(NotYetCompleted)

C4_Resolved(s) ==
    /\ s \in DOMAIN pending_responses
    /\ pending_responses[s].response # Waiting

DecodeFailure(l) ==
    /\ l.op = "complete"
    /\ l.input[3] = "Value"
    /\ l.input[4] \in {"DecodeErr", "IntoBlocksErr"}

\* C5: a completed request whose payload fails to decode, at either stage,
\* has the peer disconnected and penalized, and produces no new pending
\* record and no request outcome event.
C5_DecodeFailure ==
    DecodeFailure(last) =>
        /\ last.disc = {last.who}
        /\ last.rep = {<<last.who, "BAD_MESSAGE">>}
        /\ last.npend = 0
        /\ EventTypes(last.out) \cap RequestEvents = {}

PenalizedFailures == {"Timeout", "UnsupportedProtocols", "Refused"}

ReputationChange(err) ==
    CASE err = "Timeout" -> "TIMEOUT"
      [] err = "UnsupportedProtocols" -> "BAD_PROTOCOL"
      [] OTHER -> "REFUSED"

\* C8: a request that completes with a timeout, unsupported-protocol or
\* refused failure has the peer disconnected and penalized with the matching
\* reputation change; no data callback is invoked, the outcome queue is
\* unchanged and the only change of the pending set is the removal of the
\* completed record.
C8_Step ==
    (/\ last'.op = "complete"
     /\ last'.input[3] = "Failure"
     /\ last'.input[4] \in PenalizedFailures) =>
        /\ last'.disc = {last'.who}
        /\ last'.rep = {<<last'.who, ReputationChange(last'.input[4])>>}
        /\ last'.cb \cap DataCallbacks = {}
        /\ last'.out = <<>>
        /\ last'.npend = 0
        /\ pending_messages' = pending_messages
        /\ next_slot' = next_slot
        /\ DOMAIN pending_responses' = DOMAIN pending_responses \ {last'.slot}

C8_PenalizedFailures == [][C8_Step]_vars

\* a request has timed out and the peer was disconnected and penalized
C8_Witness ==
    /\ Completed
    /\ last.input[3] = "Failure"
    /\ last.input[4] = "Timeout"
    /\ last.disc = {last.who}
    /\ last.rep = {<<last.who, "TIMEOUT">>}

UnpenalizedFailures == {"DialFailure", "NotConnected", "ConnectionClosed"}

\* C9: a request that completes with a dial failure, not-connected or
\* connection-closed failure, or whose reply slot was dropped, has the peer
\* disconnected and not penalized; the outcome queue is unchanged and no
\* pending record is created.
C9_Step ==
    (/\ last'.op = "complete"
     /\ \/ last'.input[3] = "Canceled"
        \/ last'.input[3] = "Failure" /\ last'.input[4] \in UnpenalizedFailures) =>
        /\ last'.disc = {last'.who}
        /\ last'.rep = {}
        /\ last'.out = <<>>
        /\ last'.npend = 0
        /\ pending_messages' = pending_messages
        /\ next_slot' = next_slot
        /\ DOMAIN pending_responses' = DOMAIN pending_responses \ {last'.slot}

C9_DisconnectOnly == [][C9_Step]_vars

\* the reply slot of a request was dropped and the peer was disconnected
C9_Witness ==
    /\ Completed
    /\ last.input[3] = "Canceled"
    /\ last.disc = {last.who}
    /\ last.rep = {}

ImpossibleFailure(l) ==
    /\ l.op = "complete"
    /\ l.input[3] = "Failure"
    /\ l.input[4] \in {"UnknownProtocol", "Obsolete"}

\* C10 as stated: an unknown-protocol or obsolete failure raises a fatal
\* assertion, with no peer action and no outcome event.
C10_Original ==
    ImpossibleFailure(last) =>
        /\ last.panic
        /\ panicked
        /\ last.disc = {} /\ last.rep = {}
        /\ last.out = <<>>

\* C10, amended: an unknown-protocol or obsolete failure raises the assertion
\* in a build with debug assertions and is ignored in a build without them;
\* in both there is no peer action, no outcome event and no new pending
\* record.
C10_Step ==
    ImpossibleFailure(last') =>
        /\ last'.panic = debug_assertions
        /\ panicked' = debug_assertions
        /\ last'.disc = {} /\ last'.rep = {}
        /\ last'.cb = {}
        /\ last'.out = <<>>
        /\ last'.npend = 0
        /\ pending_messages' = pending_messages
        /\ next_slot' = next_slot

C10_DebugAssertion == [][C10_Step]_vars

\* a build without debug assertions has gone past an obsolete failure
C10_Witness ==
    /\ ImpossibleFailure(last)
    /\ ~debug_assertions
    /\ ~panicked
    /\ last.disc = {} /\ last.rep = {}

\* ------------------------------------------------------ claims: the tick
\* the outcome event a due request of this kind is announced with
RequestEventOf(kind) ==
    CASE kind = "Block" -> "BlockRequest"
      [] kind = "State" -> "StateRequest"
      [] OTHER -> "WarpSyncRequest"

\* place of a pending record in the order of a tick: block requests, the
\* state request, justification requests, the warp-sync request
TickOrder(rec) ==
    CASE rec.kind = "Block" /\ rec.fields # "JUSTIFICATION" -> 1
      [] rec.kind = "State" -> 2
      [] rec.kind = "Block" -> 3
      [] OTHER -> 4

SeqRange(q) == {q[i] : i \in 1..Len(q)}

\* C11: a dispatch tick appends exactly one outcome event and registers
\* exactly one new pending record per due request the collaborator reports,
\* block requests first, then at most one state request, then justification
\* requests, then at most one warp-sync request; every event carries its own
\* reply slot, which was not in use before.
C11_Step ==
    last'.op = "tick" =>
        LET report == last'.input
            out == last'.out
            fresh == DOMAIN pending_responses' \ DOMAIN pending_responses
        IN  /\ Len(out) = Len(report)
            /\ pending_messages' = pending_messages \o out
            /\ Card(fresh) = Len(report)
            /\ {out[i].slot : i \in 1..Len(out)} = fresh
            /\ \A i \in 1..Len(out), j \in 1..Len(out) :
                    i < j => /\ out[i].slot # out[j].slot
                             /\ TickOrder(pending_responses'[out[i].slot])
                                   <= TickOrder(pending_responses'[out[j].slot])
            /\ \A i \in 1..Len(out) :
                    /\ out[i].type = RequestEventOf(pending_responses'[out[i].slot].kind)
                    /\ pending_responses'[out[i].slot].response = Waiting
            /\ {[kind |-> pending_responses'[s].kind,
                 fields |-> pending_responses'[s].fields,
                 who |-> pending_responses'[s].who] : s \in fresh} = SeqRange(report)
            /\ Card({i \in 1..Len(out) : out[i].type = "StateRequest"}) <= 1
            /\ Card({i \in 1..Len(out) : out[i].type = "WarpSyncRequest"}) <= 1
            /\ \A s \in DOMAIN pending_responses :
                    s \in DOMAIN pending_responses'
                    /\ pending_responses'[s] = pending_responses[s]

C11_TickDispatch == [][C11_Step]_vars

\* a tick with two due block requests and a due warp-sync request has
\* appended three events with three reply slots
C11_Witness ==
    /\ last.op = "tick"
    /\ Len(last.out) = 3
    /\ <<last.out[1].type, last.out[2].type, last.out[3].type>>
          = <<"BlockRequest", "BlockRequest", "WarpSyncRequest">>
    /\ pending_responses[last.out[2].slot].fields = "BODY"
    /\ Card({last.out[i].slot : i \in 1..3}) = 3
    /\ Card(DOMAIN pending_responses) = 3

\* ------------------------------------------------- claims: outcome queue
C12_Queue == produced = drained \o pending_messages

C12_Step ==
    last'.op = "drain" =>
        /\ last'.input = pending_messages
        /\ drained' = drained \o pending_messages
        /\ pending_messages' = << >>
        /\ produced' = produced

\* C12: the outcome queue is FIFO: the replies to successive GetEvents
\* commands, concatenated, followed by what is still queued, are the events
\* appended by completions and ticks, in the order they were produced; a
\* drain returns the whole queue and leaves it empty.
C12_FIFO == []C12_Queue /\ [][C12_Step]_vars

\* a drain has returned a request event followed by the event of its
\* completion, after an earlier drain
C12_Witness ==
    /\ last.op = "drain"
    /\ Len(last.input) = 1
    /\ Len(drained) = 2
    /\ drained[1].type = "BlockRequest"
    /\ drained[2].type = "BlockImport"
    /\ pending_messages = << >>

CommandOps == {"open", "close", "blocks_processed", "notify"}

C13_Step ==
    /\ last'.op \in {"complete", "tick"} =>
            /\ pending_messages' = pending_messages \o last'.out
            /\ produced' = produced \o last'.out
    /\ last'.op \in CommandOps =>
            /\ pending_messages' = pending_messages
            /\ produced' = produced
    /\ last'.op = "drain" =>
            /\ last'.input = pending_messages
            /\ last'.out = << >>

C14_TickInfinitelyOften == []<>(last.op = "tick")

\* C15: once the command queue is closed and empty and nothing else is left
\* to do, the Reactor Loop has terminated: after it has seen the closed queue
\* it takes no further step.
C15_TerminatesWhenClosed ==
    (last.op = "rx_none" /\ rx_closed /\ rx_queue = << >> /\ pending_responses = << >>)
        => ~ENABLED LoopStep

\* C16 as stated: a call that has returned has had its command executed by
\* the Reactor Loop, whatever the method.
C16_Original == \A c \in CallIds : calls[c].pc = "returned" => calls[c].executed

\* C16: a query or reply method returns only after the Reactor Loop has
\* dequeued and executed its command; a method without a reply slot
\* (update_chain_info and its like) returns once its command is in the queue
\* and its sender is not parked, executed or not.
C16_ReturnAfterReply ==
    \A c \in CallIds :
        calls[c].pc = "returned" =>
            /\ calls[c].method \in {"reply", "query"} => calls[c].executed
            /\ calls[c].method = "fire" =>
                  \/ calls[c].executed
                  \/ /\ \E i \in 1..Len(rx_queue) : rx_queue[i] = c
                     /\ \A i \in 1..Len(parked_queue) : parked_queue[i] # c

\* a call without a reply slot has returned while its command still waits in
\* the queue, and a query has returned after its execution
C16_Witness ==
    /\ \E c \in CallIds :
          /\ calls[c].pc = "returned"
          /\ calls[c].method = "fire"
          /\ ~calls[c].executed
          /\ \E i \in 1..Len(rx_queue) : rx_queue[i] = c
    /\ \E c \in CallIds :
          /\ calls[c].pc = "returned"
          /\ calls[c].method = "query"
          /\ calls[c].executed

\* C17: the commands enqueued and not yet serviced never exceed the fixed
\* capacity of the queue, the buffer and the slot of the one handle's sender;
\* a call made while the queue is full does not enqueue before a dequeue.
C17_Backpressure == Len(rx_queue) <= ChannelBuffer + 1

\* ========================================================== error handling
\* C18: a handshake that cannot be decoded or is not a Status message, and a
\* notification of a connected peer that cannot be decoded as a block
\* announcement, both get the peer disconnected and penalized.
C18_ViolationDisconnects ==
    (\/ last.op = "open" /\ last.input \in {"not_status", "undecodable"}
     \/ last.op = "notify" /\ last.input = "undecodable")
        => /\ last.disc = {last.who}
           /\ \E r \in last.rep : r[1] = last.who

\* an admission rejection: on_sync_peer_connected has returned Err for a
\* decoded handshake
RejectedHandshake(l) ==
    l.op = "open" /\ l.input = "handshake" /\ ~l.accepted /\ ~l.panic

\* C19 as stated: a rejection carries a reputation change only for a genesis
\* mismatch or a bad role.
C19_Original ==
    (RejectedHandshake(last) /\ last.rep # {}) =>
        \/ ~last.genesis_ok
        \/ is_light(roles) /\ last.hs_roles = "light"

\* the rejection reasons that on_sync_peer_connected answers with
\* disconnect_and_report_peer
PenalizedRejection(l) ==
    \/ ~l.genesis_ok
    \/ is_light(roles) /\ l.hs_roles = "light"
    \/ is_light(roles) /\ l.blocks_difference > LIGHT_MAXIMAL_BLOCKS_DIFFERENCE
    \/ "new_peer" \in l.cb

\* C19: a rejection carries a reputation change exactly for a genesis
\* mismatch, a bad role, a full peer too far behind a light local node and a
\* peer the collaborator refuses; a rejection for full-slot or light-slot
\* exhaustion disconnects the peer without a reputation change, and a
\* handshake of a peer already in the Peer Table does neither.
C19_Step ==
    RejectedHandshake(last') =>
        IF last'.known
        THEN last'.disc = {} /\ last'.rep = {}
        ELSE /\ last'.disc = {last'.who}
             /\ PenalizedRejection(last') <=> last'.rep # {}
             /\ \A r \in last'.rep : r[1] = last'.who
             /\ ~PenalizedRejection(last') =>
                    \/ TooManyFull([roles |-> last'.hs_roles], 0)
                    \/ TooManyLight([roles |-> last'.hs_roles])

C19_PenalizedRejections == [][C19_Step]_vars

\* a full peer too far behind a light local node has been rejected with the
\* reputation change PEER_BEHIND_US_LIGHT
C19_Witness ==
    /\ RejectedHandshake(last)
    /\ is_light(roles)
    /\ last.genesis_ok
    /\ last.hs_roles = "full"
    /\ last.blocks_difference > LIGHT_MAXIMAL_BLOCKS_DIFFERENCE
    /\ last.rep = {<<last.who, "PEER_BEHIND_US_LIGHT">>}
    /\ last.disc = {last.who}

\* =============================================================== scheduler
\* positions of the dispatches of task t in the log
Dispatches(t) == {i \in 1..Len(log) : log[i].task = t}

\* the block the sentence names for a task: n for At(n), now + d + 1 for
\* After(d)
StatedBlock(t) ==
    IF scheduled[t].time.kind = "At" THEN scheduled[t].time.n
    ELSE scheduled[t].at + scheduled[t].time.n + 1

DueTasks ==
    LET now == block_number + 1
        since == IF IncompleteSince = 0 THEN now ELSE IncompleteSince
    IN  {t \in DOMAIN scheduled :
            \E w \in since..now :
                \E i \in 1..Len(AgendaGet(Agenda, w)) : AgendaGet(Agenda, w)[i] = t}

RECURSIVE SumWeights(_)
SumWeights(tasks) ==
    IF tasks = {} THEN 0
    ELSE LET t == CHOOSE x \in tasks : TRUE
         IN  scheduled[t].weight + SumWeights(tasks \ {t})

\* a task is placed in the agenda of block n for At(n) and of block
\* now + d + 1, saturating at the largest block number, for After(d); it is
\* dispatched at most once, never before its block, and stays in its agenda
\* until it is dispatched
C20_Placed ==
    \A t \in DOMAIN scheduled :
        /\ scheduled[t].when > scheduled[t].at
        /\ scheduled[t].time.kind = "At" => scheduled[t].when = scheduled[t].time.n
        /\ scheduled[t].time.kind = "After" =>
              scheduled[t].when =
                  IF scheduled[t].at + scheduled[t].time.n + 1 > BlockNumberMax
                  THEN BlockNumberMax
                  ELSE scheduled[t].at + scheduled[t].time.n + 1
        /\ Card(Dispatches(t)) <= 1
        /\ \A i \in Dispatches(t) :
              /\ log[i].block >= scheduled[t].when
              /\ log[i].block <= block_number
        /\ Dispatches(t) = {} =>
              \E i \in 1..Len(AgendaGet(Agenda, scheduled[t].when)) :
                  AgendaGet(Agenda, scheduled[t].when)[i] = t

\* when the calls of all the tasks a block services are available and their
\* weights fit together in T::MaximumWeight, each of them is dispatched in
\* that block
C20_Step ==
    (/\ block_number' = block_number + 1
     /\ \A t \in DueTasks : peek(t)
     /\ SumWeights(DueTasks) <= MaximumWeight)
        => /\ \A t \in DueTasks :
                 \E i \in (Len(log) + 1)..Len(log') :
                     log'[i] = [task |-> t, block |-> block_number']
           /\ IncompleteSince' = 0

ReachesFullSlotCheck(l) ==
    /\ l.op = "open"
    /\ l.input = "handshake"
    /\ ~l.known
    /\ ~l.panic
    /\ l.genesis_ok
    /\ l.hs_roles = "full"
    /\ ~(is_light(roles) /\ l.blocks_difference > LIGHT_MAXIMAL_BLOCKS_DIFFERENCE)

\* C30: a full peer is rejected by the full-slot check exactly when the peers
\* the collaborator tracks are at least default_peers_set_num_full plus the
\* size of the no-slot-connected set plus one for a no-slot peer; below that
\* the handshake goes on to ChainSync::new_peer.
C30_Step ==
    ReachesFullSlotCheck(last') =>
        LET threshold == default_peers_set_num_full
                           + Card(default_peers_set_no_slot_connected_peers)
                           + (IF last'.who \in default_peers_set_no_slot_peers
                              THEN 1 ELSE 0)
        IN  /\ Card(cs_peers) >= threshold =>
                  /\ ~last'.accepted
                  /\ last'.cb = {}
                  /\ last'.disc = {last'.who}
                  /\ last'.rep = {}
                  /\ UNCHANGED <<peers, cs_peers>>
            /\ Card(cs_peers) < threshold => "new_peer" \in last'.cb

C30_FullSlotThreshold == [][C30_Step]_vars

\* a full peer has been turned away with the collaborator tracking exactly
\* the threshold, which is not zero
C30_Witness ==
    /\ ReachesFullSlotCheck(last)
    /\ ~last.accepted
    /\ last.cb = {}
    /\ default_peers_set_num_full >= 1
    /\ Card(cs_peers) = default_peers_set_num_full
                          + Card(default_peers_set_no_slot_connected_peers)

\* ======================================================= enactment policy
nbb(hash) == [kind |-> "NewBestBlock", hash |-> hash]
f(hash) == [kind |-> "Finalized", hash |-> hash]

\* the sequences of the documentation of EnactmentPolicy with the result
\* documented for their last event
Documented ==
    {[events |-> <<nbb("C1"), f("C1")>>, result |-> FALSE],
     [events |-> <<f("C1"), nbb("C1")>>, result |-> FALSE],
     [events |-> <<f("C1"), nbb("D2")>>, result |-> FALSE],
     [events |-> <<f("C1"), f("C2"), nbb("C1")>>, result |-> FALSE],
     [events |-> <<nbb("C1"), nbb("C2")>>, result |-> TRUE],
     [events |-> <<nbb("B1"), nbb("B2")>>, result |-> TRUE],
     [events |-> <<nbb("B1"), nbb("C1"), f("C1")>>, result |-> FALSE],
     [events |-> <<nbb("C1"), f("B1")>>, result |-> FALSE]}

EventsOf(tr) == [i \in 1..Len(tr) |-> tr[i].event]

\* C29: after each documented sequence of chain events, handled from a new
\* EnactmentHelper, should_handle_enactment has returned the documented
\* result for the last event.
C29_Documented ==
    \A d \in Documented :
        EventsOf(trace) = d.events => trace[Len(trace)].result = d.result

\* the longest documented sequences have been handled
C29_Witness ==
    /\ EventsOf(trace) \in {<<f("C1"), f("C2"), nbb("C1")>>,
                            <<nbb("B1"), nbb("C1"), f("C1")>>}
    /\ ~trace[Len(trace)].result

\* ========================================================= periodic tasks
\* the tasks scheduled with a period p > 0 and a count c > 1
Periodic == {t \in DOMAIN scheduled : sanitize(scheduled[t].maybe_periodic) # << >>}

\* the blocks the sentence names: n, n + p, .., n + (c - 1) p
StatedBlocks(t) ==
    {scheduled[t].when + k * scheduled[t].maybe_periodic[1] :
        k \in 0..(scheduled[t].maybe_periodic[2] - 1)}

DispatchBlocks(t) == {log[i].block : i \in Dispatches(t)}

\* the agendas that hold task t
PlacedAt(t) ==
    {w \in DOMAIN Agenda : \E i \in 1..Len(Agenda[w]) : Agenda[w][i] = t}

C21_Placed ==
    \A t \in Periodic :
        LET p == scheduled[t].maybe_periodic[1]
            c == scheduled[t].maybe_periodic[2]
            ds == Dispatches(t)
        IN  /\ Card(ds) <= c
            /\ \A i \in ds : log[i].block >= scheduled[t].when
            /\ \A i, j \in ds : i < j => log[j].block >= log[i].block + p
            /\ ds = {} => PlacedAt(t) = {scheduled[t].when}
            /\ (ds # {} /\ Card(ds) < c) =>
                  PlacedAt(t) = {log[CHOOSE i \in ds : \A j \in ds : j <= i].block + p}
            /\ Card(ds) = c => PlacedAt(t) = {}

\* when the calls of all the tasks a block services are available and fit
\* together in T::MaximumWeight, each of them is dispatched in that block
C21_Step ==
    (/\ block_number' = block_number + 1
     /\ \A t \in DueTasks : peek(t)
     /\ SumWeights(DueTasks) <= MaximumWeight)
        => \A t \in DueTasks :
              \E i \in (1..Len(log')) \ (1..Len(log)) :
                  /\ log'[i].task = t
                  /\ log'[i].block = block_number'

Serviced(w) == w > block_number \/ (IncompleteSince # 0 /\ IncompleteSince <= w)

\* C22: a task whose call is scheduled by hash and fits the weight limit is
\* not lost while its preimage is missing: until it is dispatched it is in
\* an agenda that a later block services, so that it is retried.
C22_Original ==
    \A t \in DOMAIN scheduled :
        (/\ scheduled[t].call = "lookup"
         /\ scheduled[t].weight <= MaximumWeight
         /\ Dispatches(t) = {})
            => \E w \in PlacedAt(t) : Serviced(w)

\* ============================================================ weight limit
\* the tasks whose call is at hand whenever they are serviced
Inline == {t \in DOMAIN scheduled : scheduled[t].call = "inline"}

C23_Kept ==
    \A t \in Inline :
        (scheduled[t].weight <= MaximumWeight /\ Dispatches(t) = {})
            => \E w \in PlacedAt(t) : Serviced(w)

\* the tasks dispatched by the step
DispatchedNow == {log'[i].task : i \in (Len(log) + 1)..Len(log')}

\* the calls dispatched in one block fit the weight limit together, and a
\* block dispatches a task when some task due in it fits on its own
C23_Step ==
    block_number' = block_number + 1
        => /\ SumWeights(DispatchedNow) <= MaximumWeight
           /\ (\E t \in DueTasks : peek(t) /\ scheduled[t].weight <= MaximumWeight)
                 => DispatchedNow # {}

C24_Original ==
    \A t \in DOMAIN scheduled :
        (/\ scheduled[t].priority \in HardDeadlines
         /\ scheduled[t].weight <= MaximumWeight
         /\ scheduled[t].when <= block_number)
            => \E i \in Dispatches(t) : log[i].block = scheduled[t].when

\* task t is tried before task u when both are in the agenda of block w
Before(w, t, u) ==
    \E i, j \in 1..Len(AgendaGet(Agenda, w)) :
        /\ Agenda[w][i] = t
        /\ Agenda[w][j] = u
        /\ \/ scheduled[t].priority < scheduled[u].priority
           \/ scheduled[t].priority = scheduled[u].priority /\ i < j

\* the agendas the next block services
DueAgendas ==
    {w \in DOMAIN Agenda :
        /\ w <= block_number + 1
        /\ w >= (IF IncompleteSince = 0 THEN block_number + 1 ELSE IncompleteSince)
        /\ \E i \in 1..Len(Agenda[w]) : Agenda[w][i] # 0}

\* the position in the log of the dispatch of t by the step, 0 for none
DispatchedAt(t) ==
    IF t \in DispatchedNow
    THEN CHOOSE i \in (Len(log) + 1)..Len(log') : log'[i].task = t
    ELSE 0

\* the tasks of an agenda that are dispatched in one block are dispatched by
\* ascending priority value and then by index; of the first agenda a block
\* services, the first task in that order that fits on its own is dispatched
C25_Step ==
    block_number' = block_number + 1
        => \A w \in DueAgendas : \A t, u \in DOMAIN scheduled :
              /\ (Before(w, t, u) /\ t \in DispatchedNow /\ u \in DispatchedNow)
                    => DispatchedAt(t) < DispatchedAt(u)
              /\ (/\ \A v \in DueAgendas : w <= v
                  /\ Before(w, t, u) \/ Before(w, u, t)
                  /\ peek(t)
                  /\ scheduled[t].weight <= MaximumWeight
                  /\ \A v \in DOMAIN scheduled :
                        Before(w, v, t) =>
                            ~peek(v) \/ scheduled[v].weight > MaximumWeight)
                    => t \in DispatchedNow

Cancels == outcome' # outcome /\ outcome'.call \in {"cancel", "cancel_named"}

\* the storage of the pallet and what it has dispatched
Scheduling ==
    <<Agenda, Lookup, events, IncompleteSince, maybe_periodic, preimages, scheduled,
      log, block_number>>

\* the caller of the step may not cancel the task it names
Underprivileged ==
    /\ outcome'.task # 0
    /\ outcome'.origin # ""
    /\ cmp_privilege(outcome'.origin, scheduled[outcome'.task].origin)
          \in {"Less", "None"}

\* a cancel by an origin below the origin of the task, or not comparable
\* with it, fails with BadOrigin and changes nothing; a cancel that returns
\* Ok empties the slot of the task and forgets its name; only a task that
\* is in an agenda is dispatched
C26_Step ==
    /\ (Cancels /\ Underprivileged)
          => outcome'.res = "BadOrigin" /\ UNCHANGED Scheduling
    /\ (Cancels /\ outcome'.res = "Ok")
          => /\ outcome'.task # 0
             /\ PlacedAt(outcome'.task) # {}
             /\ \A w \in DOMAIN Agenda' : \A i \in 1..Len(Agenda'[w]) :
                   Agenda'[w][i] # outcome'.task
             /\ \A id \in DOMAIN Lookup' : Lookup'[id] # <<outcome'.when, outcome'.index>>
             /\ events' = Append(events, Event("Canceled", outcome'.when, outcome'.index))
    /\ \A t \in DispatchedNow : PlacedAt(t) # {}
    /\ \A t \in DOMAIN scheduled : PlacedAt(t) = {} => \A w \in DOMAIN Agenda' :
          \A i \in 1..Len(Agenda'[w]) : Agenda'[w][i] # t

\* a task that nobody cancelled is in the agenda of its block until it is
\* dispatched
C26_Kept ==
    \A t \in DOMAIN scheduled :
        (/\ Dispatches(t) = {}
         /\ \A i \in 1..Len(events) : events[i].ev # "Canceled")
            => PlacedAt(t) = {scheduled[t].when}

\* C26: cancel and cancel_named by an origin whose privilege is lower than
\* or incomparable with the origin that scheduled the task fail with
\* BadOrigin and leave Agenda, Lookup and the events unchanged, so that the
\* task stays in the agenda of its block; a successful cancel removes the
\* task from its agenda for good, so that it is never dispatched.
C26_Cancel == []C26_Kept /\ [][C26_Step]_vars

\* signed2 was refused the cancellation of a named task of signed1
C26_Witness ==
    /\ outcome.call = "cancel_named"
    /\ outcome.res = "BadOrigin"
    /\ outcome.origin = "signed2"
    /\ outcome.task # 0
    /\ scheduled[outcome.task].origin = "signed1"
    /\ PlacedAt(outcome.task) = {scheduled[outcome.task].when}

\* ======================================================== past block numbers
\* the step is a call of schedule or schedule_named for a block that is not
\* after the current one
SchedulesInPast ==
    /\ outcome' # outcome
    /\ outcome'.call = "schedule"
    /\ outcome'.time.kind = "At"
    /\ outcome'.time.n <= block_number

\* C27 as stated: the call fails with TargetBlockNumberInPast and leaves
\* Agenda and Lookup unchanged.
C27_Original ==
    [][SchedulesInPast
          => outcome'.res = "TargetBlockNumberInPast" /\ UNCHANGED <<Agenda, Lookup>>]_vars

C27_Step ==
    SchedulesInPast
        => /\ outcome'.res = (IF outcome'.id \in DOMAIN Lookup
                              THEN "FailedToSchedule"
                              ELSE "TargetBlockNumberInPast")
           /\ UNCHANGED Scheduling

\* C27: scheduling at a block number less than or equal to the current block
\* fails and leaves Agenda and Lookup unchanged; the error is
\* TargetBlockNumberInPast, except for schedule_named with a name that is in
\* Lookup, which fails with FailedToSchedule before the time is looked at.
C27_InPast == [][C27_Step]_vars

\* a named task was refused for its block while its name was free
C27_Witness ==
    /\ outcome.call = "schedule"
    /\ outcome.res = "TargetBlockNumberInPast"
    /\ outcome.id # 0
    /\ outcome.time.n = block_number
    /\ block_number > 0

\* ============================================================== reschedule
\* the step is a call of reschedule or reschedule_named
Reschedules ==
    outcome' # outcome /\ outcome'.call \in {"reschedule", "reschedule_named"}

\* the step names a pending task, by its address or by its name
NamesTask ==
    /\ Reschedules
    /\ outcome'.task # 0
    /\ outcome'.call = "reschedule" => scheduled[outcome'.task].id = 0

HasRoom(w) ==
    \/ Len(AgendaGet(Agenda, w)) < MaxScheduledPerBlock
    \/ \E i \in 1..Len(AgendaGet(Agenda, w)) : Agenda[w][i] = 0

C28_Step ==
    LET t == outcome'.task
        new == outcome'.time.n
        old == outcome'.when
    IN  /\ (Reschedules /\ outcome'.res = "Ok")
              => /\ NamesTask
                 /\ new > block_number
                 /\ new # old
                 /\ PlacedAt(t) = {old}
                 /\ {w \in DOMAIN Agenda' :
                        \E i \in 1..Len(Agenda'[w]) : Agenda'[w][i] = t} = {new}
                 /\ scheduled[t].id # 0 =>
                       /\ scheduled[t].id \in DOMAIN Lookup'
                       /\ Lookup'[scheduled[t].id][1] = new
                       /\ Agenda'[new][Lookup'[scheduled[t].id][2]] = t
                 /\ UNCHANGED <<maybe_periodic, log, scheduled, preimages,
                                IncompleteSince, block_number>>
        /\ (NamesTask /\ new > block_number /\ new # old /\ HasRoom(new))
              => outcome'.res = "Ok"
        /\ (NamesTask /\ new = old)
              => /\ outcome'.res = (IF new > block_number THEN "RescheduleNoChange"
                                    ELSE "TargetBlockNumberInPast")
                 /\ UNCHANGED Scheduling
        /\ \A u \in DispatchedNow : \E w \in PlacedAt(u) : w <= block_number'
        /\ (/\ block_number' = block_number + 1
            /\ \A u \in DueTasks : peek(u)
            /\ SumWeights(DueTasks) <= MaximumWeight)
              => DueTasks \subseteq DispatchedNow

ReachesLightSlotCheck(l) ==
    /\ l.op = "open"
    /\ l.input = "handshake"
    /\ ~l.known
    /\ ~l.panic
    /\ l.genesis_ok
    /\ l.hs_roles = "light"
    /\ is_full(roles)

C31_Step ==
    ReachesLightSlotCheck(last') =>
        /\ Card(DOMAIN peers) - Card(cs_peers) >= default_peers_set_num_light =>
              /\ ~last'.accepted
              /\ last'.disc = {last'.who}
              /\ last'.rep = {}
              /\ last'.cb = {}
              /\ EventTypes(last'.out) = {"None"}
              /\ UNCHANGED <<peers, cs_peers>>
        /\ Card(DOMAIN peers) - Card(cs_peers) < default_peers_set_num_light =>
              /\ last'.accepted
              /\ last'.disc = {}
              /\ last'.who \in DOMAIN peers'
              /\ peers'[last'.who] = "light"

\* the light peers of a full local node fit the light budget
C31_Budget ==
    is_full(roles) => Card(LightPeers) <= default_peers_set_num_light

\* C31: a light-role peer that reaches the light-slot check is rejected
\* exactly when the peers in the Peer Table minus the peers the collaborator
\* tracks are at least default_peers_set_num_light; at a full local node the
\* light-role peers in the Peer Table never exceed that budget.
C31_LightSlotThreshold == []C31_Budget /\ [][C31_Step]_vars

\* a light peer has been turned away by a full local node whose table holds
\* exactly the light budget of peers the collaborator does not track
C31_Witness ==
    /\ ReachesLightSlotCheck(last)
    /\ ~last.accepted
    /\ last.cb = {}
    /\ default_peers_set_num_light >= 1
    /\ Card(DOMAIN peers) - Card(cs_peers) = default_peers_set_num_light
    /\ Card(LightPeers) = default_peers_set_num_light

\* ===================================================== light local node
\* the last handler was on_sync_peer_connected for a peer that was not in
\* the Peer Table and is on the local chain
OnLocalChain(l) ==
    /\ l.op = "open"
    /\ l.input = "handshake"
    /\ ~l.known
    /\ ~l.panic
    /\ l.genesis_ok

\* the peer trails the local best by more than the threshold
FarBehind(l) == l.self_best - l.best_number > LIGHT_MAXIMAL_BLOCKS_DIFFERENCE

\* the reputation changes of the two rules of a light local node
LightRules == {"BAD_ROLE", "PEER_BEHIND_US_LIGHT"}

\* the handshake went on to the slot checks: it was turned away there
\* without a reputation change, or the peer was admitted or offered to the
\* collaborator
WentOnToSlots(l) ==
    \/ l.accepted
    \/ "new_peer" \in l.cb
    \/ /\ l.rep = {}
       /\ \/ TooManyFull([roles |-> l.hs_roles], 0)
          \/ TooManyLight([roles |-> l.hs_roles])

C32_Step ==
    OnLocalChain(last') =>
        /\ (is_light(roles) /\ last'.hs_roles = "light") =>
              /\ ~last'.accepted
              /\ last'.disc = {last'.who}
              /\ last'.rep = {<<last'.who, "BAD_ROLE">>}
              /\ last'.cb = {}
              /\ UNCHANGED <<peers, cs_peers>>
        /\ (is_light(roles) /\ last'.hs_roles = "full" /\ FarBehind(last')) =>
              /\ ~last'.accepted
              /\ last'.disc = {last'.who}
              /\ last'.rep = {<<last'.who, "PEER_BEHIND_US_LIGHT">>}
              /\ last'.cb = {}
              /\ UNCHANGED <<peers, cs_peers>>
        /\ (is_light(roles) /\ last'.hs_roles = "full" /\ ~FarBehind(last')) =>
              /\ \A r \in last'.rep : r[2] \notin LightRules
              /\ WentOnToSlots(last')
        /\ is_full(roles) =>
              /\ \A r \in last'.rep : r[2] \notin LightRules
              /\ WentOnToSlots(last')

Admission(l) ==
    /\ l.op = "open"
    /\ l.input = "handshake"
    /\ ~l.known
    /\ ~l.panic

C33_Step ==
    Admission(last') =>
        /\ last'.hs_roles = "light" => "new_peer" \notin last'.cb
        /\ last'.accepted =>
              /\ last'.rep = {} /\ last'.disc = {}
              /\ "SyncConnected" \in EventTypes(last'.out)
              /\ "new_peer" \in last'.cb <=> last'.hs_roles = "full"
              /\ cs_peers' = IF last'.hs_roles = "full"
                             THEN cs_peers \cup {last'.who} ELSE cs_peers
        /\ (~last'.accepted /\ "new_peer" \in last'.cb) =>
              /\ last'.hs_roles = "full"
              /\ last'.disc = {last'.who}
              /\ last'.rep = {<<last'.who, "BadPeer">>}
              /\ EventTypes(last'.out) = {"None"}
              /\ last'.npend = 0
              /\ last'.who \notin DOMAIN peers'
              /\ last'.who \notin default_peers_set_no_slot_connected_peers'
              /\ UNCHANGED <<peers, default_peers_set_no_slot_connected_peers,
                             cs_peers, pending_responses>>

\* the collaborator tracks the full-role peers of the Peer Table and no others
C33_Registered == cs_peers = FullPeers

\* C33: on acceptance new_peer is called for a full-role peer and never for
\* a light-role peer, so the collaborator tracks exactly the full-role peers
\* of the Peer Table; when new_peer returns BadPeer the handshake is
\* rejected: the peer is disconnected and reported, is in neither the Peer
\* Table nor the no-slot-connected set afterwards, and the reply is None
\* without a SyncConnected event.
C33_CollaboratorRefusal == []C33_Registered /\ [][C33_Step]_vars

\* the collaborator has refused a full-role peer while a light-role peer,
\* which it was never asked about, is in the Peer Table
C33_Witness ==
    /\ Admission(last)
    /\ ~last.accepted
    /\ "new_peer" \in last.cb
    /\ last.rep = {<<last.who, "BadPeer">>}
    /\ last.who \notin DOMAIN peers
    /\ LightPeers # {}
    /\ cs_peers = {}

\* ============================================================== routing
\* the step is a call of handle_pending_response
Completes == last'.op = "complete" /\ completions' # completions

\* the payload passed both decoding stages of its kind
Decoded(input) ==
    input[3] = "Value" /\ input[4] \notin {"DecodeErr", "IntoBlocksErr"}

\* the data callback of a request kind
RouteOf(input) ==
    CASE input[1] = "Block" /\ input[2] = "JUSTIFICATION" -> "on_block_justification"
      [] input[1] = "Block" -> "on_block_data"
      [] input[1] = "State" -> "on_state_data"
      [] OTHER -> "on_warp_sync_data"

\* the outcome event of an answer of a data callback
EventOfAnswer(input) ==
    CASE input[4] = "Import" /\ RouteOf(input) = "on_block_justification" ->
            "JustificationImport"
      [] input[4] = "Import" -> "BlockImport"
      [] input[4] = "Request" -> "BlockRequest"
      [] OTHER -> "None"

\* a decoded payload went to its callback and one event was appended, with
\* one new pending record for a follow-up request
RoutedStep ==
    /\ last'.cb \cap DataCallbacks = {RouteOf(last'.input)}
    /\ Len(last'.out) = 1
    /\ last'.out[1].type = EventOfAnswer(last'.input)
    /\ pending_messages' = Append(pending_messages, last'.out[1])
    /\ IF last'.input[4] = "Request"
       THEN /\ last'.npend = 1
            /\ DOMAIN pending_responses'
                  = (DOMAIN pending_responses \ {last'.slot}) \cup {last'.out[1].slot}
            /\ last'.out[1].slot \notin DOMAIN pending_responses
            /\ pending_responses'[last'.out[1].slot].kind = "Block"
       ELSE /\ last'.npend = 0
            /\ DOMAIN pending_responses' = DOMAIN pending_responses \ {last'.slot}

\* no callback was given the payload and nothing was appended
SilentStep ==
    /\ last'.cb \cap DataCallbacks = {}
    /\ last'.out = << >>
    /\ pending_messages' = pending_messages
    /\ last'.npend = 0
    /\ DOMAIN pending_responses' = DOMAIN pending_responses \ {last'.slot}

\* C34 as stated: a decoded response is routed by kind and appends one
\* outcome event; a failed completion appends no event.
C34_Original ==
    [][Completes => IF Decoded(last'.input) THEN RoutedStep ELSE SilentStep]_vars

C34_Step ==
    Completes =>
        IF Decoded(last'.input) THEN RoutedStep
        ELSE IF last'.input[3] = "Value" /\ last'.input[4] = "IntoBlocksErr"
        THEN /\ last'.cb \cap DataCallbacks = {}
             /\ last'.out = <<Ev("None")>>
             /\ pending_messages' = Append(pending_messages, Ev("None"))
             /\ last'.npend = 0
             /\ DOMAIN pending_responses' = DOMAIN pending_responses \ {last'.slot}
        ELSE SilentStep

\* C34: a response that passes both decoding stages is routed by kind (a
\* block response with fields = JUSTIFICATION to on_block_justification,
\* another block response to on_block_data, a state response to
\* on_state_data, a warp proof to on_warp_sync_data) and appends exactly one
\* outcome event: the import event for Import, a BlockRequest with exactly
\* one new pending record for a follow-up request, None for the other
\* answers.  A block response that block_response_into_blocks refuses goes
\* to no callback and appends the None event; every other failed completion
\* appends no event.
C34_Routing == [][C34_Step]_vars

\* the follow-up request of a block response is pending, its BlockRequest
\* is the newest event of the outcome queue
C34_Witness ==
    /\ last.op = "complete"
    /\ last.input = <<"Block", "BODY", "Value", "Request">>
    /\ last.npend = 1
    /\ pending_messages # << >>
    /\ pending_messages[Len(pending_messages)].type = "BlockRequest"
    /\ pending_messages[Len(pending_messages)].slot \in DOMAIN pending_responses
    /\ last.slot \notin DOMAIN pending_responses

\* ---------------------------------------------------------------- C35
\* a step of run that handles a notification
NotifyStep == last'.op = "notify" /\ last' # last

C35_Step ==
    /\ "process_block_announce_validation_result" \notin last'.cb
    /\ announce_validations' >= announce_validations
    /\ block_announce_data_cache' = {}
    /\ NotifyStep =>
          /\ last'.out = <<Ev("None")>>
          /\ pending_messages' = pending_messages
          /\ produced' = produced
          /\ pending_responses' = pending_responses

\* C35: no transition of run polls the collaborator for finished
\* block-announce validations: no step calls
\* process_block_announce_validation_result, a validation that a
\* notification pushed is never taken back out of the collaborator, the
\* notification answers None and appends no outcome event, and the
\* block-announce data cache stays empty.
C35_NeverPolled == [][C35_Step]_vars

\* a request completed after a notification pushed an announcement: the
\* validation is still with the collaborator and nothing is cached
C35_Witness ==
    /\ last.op = "complete"
    /\ announce_validations > 0
    /\ peers # << >>
    /\ block_announce_data_cache = {}

\* ---------------------------------------------------------------- C36
\* the command serviced by this step answers with SyncConnected for p
AnswersSyncConnected(p) ==
    /\ last' # last
    /\ last'.op = "open"
    /\ last'.who = p
    /\ "SyncConnected" \in EventTypes(last'.out)

\* the command serviced by this step answers with SyncDisconnected for p
AnswersSyncDisconnected(p) ==
    /\ last' # last
    /\ last'.op = "close"
    /\ last'.who = p
    /\ "SyncDisconnected" \in EventTypes(last'.out)

C36_Step ==
    \A p \in PeerIds :
        /\ AnswersSyncConnected(p) <=> (p \notin DOMAIN peers /\ p \in DOMAIN peers')
        /\ AnswersSyncDisconnected(p) <=> (p \in DOMAIN peers /\ p \notin DOMAIN peers')
        /\ (last' # last /\ last'.op = "close" /\ last'.who = p) =>
              /\ AnswersSyncDisconnected(p) <=> p \in DOMAIN peers
              /\ p \notin DOMAIN peers =>
                    /\ last'.out = <<Ev("None")>>
                    /\ last'.cb = {}
                    /\ UNCHANGED <<peers, cs_peers,
                                   default_peers_set_no_slot_connected_peers>>

\* C36: the SyncConnected and SyncDisconnected answers of a peer alternate,
\* starting with SyncConnected: SyncConnected(p) is answered exactly by the
\* steps that insert p into the Peer Table, SyncDisconnected(p) exactly by
\* the steps that remove it, and a close for a peer outside the table
\* answers None, calls no collaborator method and changes nothing.
C36_Alternation == [][C36_Step]_vars

\* a peer of the table was closed while another one stays connected
C36_Witness ==
    /\ last.op = "close"
    /\ "SyncDisconnected" \in EventTypes(last.out)
    /\ last.who \notin DOMAIN peers
    /\ peers # << >>

\* ---------------------------------------------------------------- C37
\* a step that handles a request completion, the result of a justification
\* import or the results of processed blocks
HandlesResult ==
    /\ last' # last
    /\ last'.op \in {"complete", "justification_import", "blocks_processed"}

C37_Step ==
    /\ HandlesResult =>
          /\ peers' = peers
          /\ default_peers_set_no_slot_connected_peers' =
                default_peers_set_no_slot_connected_peers
          /\ Cardinality(FullPeers') = Cardinality(FullPeers)
          /\ Cardinality(LightPeers') = Cardinality(LightPeers)
    /\ \A p \in DOMAIN peers :
          p \notin DOMAIN peers' => (last'.op = "close" /\ last'.who = p)

\* C37: handling a request completion (success, decode failure, network
\* failure or cancellation), a failed justification import or a BadPeer
\* result of the collaborator changes neither the Peer Table nor the
\* no-slot-connected set: a peer passed to disconnect_peer stays in the
\* table and keeps counting toward its slot until a protocol-close command
\* for it is serviced.
C37_TableKept == [][C37_Step]_vars

\* the peer whose failed completion was passed to disconnect_peer is still
\* in the Peer Table
C37_Witness ==
    /\ last.op = "complete"
    /\ last.who \in last.disc
    /\ last.who \in DOMAIN peers

\* the peer of a failed justification import was passed to disconnect_peer and
\* is still in the Peer Table
C37_WitnessImport ==
    /\ last.op = "justification_import"
    /\ last.who \in last.disc
    /\ last.who \in DOMAIN peers

====
